---- MODULE Spec2Model ----
(***************************************************************************)
(* The GOLD engine for node: the table linker (load_grammar_tables), the   *)
(* DFA lexer with its group engine (next_token) and the LALR(1) driver     *)
(* (parse_string, lalr_step, lalr_setup) with its observer hooks.          *)
(*                                                                         *)
(* Arrays of the source are 0-based; the sequences here are 1-based and    *)
(* At(a, i) reads a[i] of the source.  A value that may be undefined is a  *)
(* sequence of length 0 (undefined) or 1 (Some(v)).  A string of the input *)
(* is a sequence of one-character strings, so that .length is Len.         *)
(***************************************************************************)
EXTENDS Integers, Sequences, FiniteSets, TLC

VARIABLES
  grammar,      \* the linked grammar object graph shared by the invocations
  str,          \* str[p]: the input of invocation p
  hooks,        \* hooks[p]: which of on_token, on_reduce, on_shift are given
  pc,           \* pc[p]: where invocation p of parse_string stands
  look_ahead,   \* look_ahead[p]: the look-ahead slot (undefined or a token)
  current_pos,  \* current_pos[p]: the input cursor
  stack,        \* stack[p]: the LR stack, bottom first
  tok,          \* tok[p]: the token held across the await of on_token
  result,       \* result[p]: undefined, or the value parse_string returned
  thrown,       \* thrown[p]: undefined, or the message of the Error raised
  trace,        \* trace[p]: history of lexed tokens, LR steps and hook calls
  file,         \* the GTFileReader: data, read_head, remaining_records
  cgt,          \* the CGTData load_cgt fills and load_grammar_tables links
  lpc,          \* where the loading of the tables stands
  lret,         \* what the last call on the reader, loader or linker gave
  objects,      \* the DFAState or LRState objects build_dfa, build_lr made
  state_map,    \* dfa_map of build_dfa, lr_map of build_lr: index to object
  calls         \* the calls of recursive_helper that have not returned

vars == <<grammar, str, hooks, pc, look_ahead, current_pos, stack, tok,
          result, thrown, trace, file, cgt, lpc, lret, objects, state_map,
          calls>>

----------------------------------------------------------------------------
(* Bounds of the model. *)

\* longest input string
MaxLen == 3
\* deepest stack a reduce may still push onto (epsilon reductions can loop)
MaxStack == 5
\* most fields in the data handed to a GTFileReader
MaxFields == 2

----------------------------------------------------------------------------
(* Enumerations of parser.ts. *)

SHIFT == 1
REDUCE == 2
GOTO == 3
ACCEPT == 4

NON_TERMINAL == 0
TERMINAL == 1
SKIPPABLE == 2
EOF == 3
GROUP_START == 4
GROUP_END == 5
COMMENT_LINE == 6
ERROR == 7

\* GrammarDataType: the tag bytes of the fields of a CGT file
GrammarDataType_BOOLEAN == 66
EMPTY == 69
INT == 73
GrammarDataType_STRING == 83
BYTE == 98
MULTI == 77

----------------------------------------------------------------------------
(* Helpers for the encoding. *)

undefined == <<>>
Some(v) == <<v>>
\* a[i]: undefined when the array has no entry i
At(a, i) == IF i + 1 \in DOMAIN a THEN a[i + 1] ELSE undefined
Last(a) == a[Len(a)]
Front(a) == SubSeq(a, 1, Len(a) - 1)
MinOf(S) == CHOOSE x \in S : \A y \in S : x <= y

\* Map.set(k, v) on a map held as a function with a finite domain
MapSet(m, k, v) == [x \in (DOMAIN m) \cup {k} |-> IF x = k THEN v ELSE m[x]]
EmptyMap == [x \in {} |-> 0]
\* Map.get(k): undefined or the entry
MapGet(m, k) == IF k \in DOMAIN m THEN Some(m[k]) ELSE undefined

----------------------------------------------------------------------------
(* GTFileReader.  The reader is the record f = [data, read_head,           *)
(* remaining_records], data a sequence of bytes; a method is an operator   *)
(* from f to [file, value, thrown]: the reader after the call, the value   *)
(* returned, and undefined or the message of the Error raised.  A read     *)
(* past the end of the Buffer raises a RangeError.  A string is the        *)
(* sequence of its UTF-16 code units.                                      *)

Returns(f, v) == [file |-> f, value |-> v, thrown |-> undefined]
Throws(f, message) == [file |-> f, value |-> undefined, thrown |-> Some(message)]

\* Buffer.readUInt8(offset) and Buffer.readUInt16LE(offset) are in range
InRange8(f, offset) == offset >= 0 /\ offset + 1 <= Len(f.data)
InRange16(f, offset) == offset >= 0 /\ offset + 2 <= Len(f.data)
readUInt8(f, offset) == f.data[offset + 1]
readUInt16LE(f, offset) == f.data[offset + 1] + 256 * f.data[offset + 2]

eof(f) == f.read_head >= Len(f.data)

\* the offsets i = read_head, read_head + 2, ... below data.length
StringOffsets(f) ==
  { i \in f.read_head..(Len(f.data) - 1) : (i - f.read_head) % 2 = 0 }

read_raw_string(f) ==
  LET zeros == { i \in StringOffsets(f) :
                   InRange16(f, i) /\ readUInt16LE(f, i) = 0 }
  IN IF zeros # {}
     THEN LET i == MinOf(zeros)
          IN Returns([f EXCEPT !.read_head = i + 2],
                     [k \in 1..((i - f.read_head) \div 2) |->
                        readUInt16LE(f, f.read_head + 2 * (k - 1))])
     ELSE IF \E i \in StringOffsets(f) : ~InRange16(f, i)
       THEN Throws(f, "RangeError")
     ELSE Throws(f, "Not a string to read")

\* this.data.readUInt8(this.read_head++)
next_type(f) ==
  LET g == [f EXCEPT !.read_head = @ + 1]
  IN IF InRange8(f, f.read_head) THEN Returns(g, readUInt8(f, f.read_head))
     ELSE Throws(g, "RangeError")

\* the start of every typed read: the tag is read and, when it is not the
\* one asked for, the read head is put back
expect_type(f, type) ==
  LET t == next_type(f)
  IN IF t.thrown # undefined THEN t
     ELSE IF t.value # type
       THEN Throws([t.file EXCEPT !.read_head = @ - 1], "Unexpected data type")
     ELSE t

\* read_bool without the rewind of the read head
read_bool_no_rewind(f) ==
  LET t == next_type(f)
  IN IF t.thrown # undefined THEN t
     ELSE IF t.value # GrammarDataType_BOOLEAN THEN Throws(t.file, "Unexpected data type")
     ELSE LET g == [t.file EXCEPT !.remaining_records = @ - 1]
          IN next_type(g)

read_bool(f) ==
  LET t == expect_type(f, GrammarDataType_BOOLEAN)
  IN IF t.thrown # undefined THEN t
     ELSE LET g == [t.file EXCEPT !.remaining_records = @ - 1]
              b == next_type(g)
          IN IF b.thrown # undefined THEN b
             ELSE Returns(b.file, b.value # 0)

read_empty(f) ==
  LET t == expect_type(f, EMPTY)
  IN IF t.thrown # undefined THEN t
     ELSE Returns([t.file EXCEPT !.remaining_records = @ - 1], undefined)

read_int(f) ==
  LET t == expect_type(f, INT)
  IN IF t.thrown # undefined THEN t
     ELSE IF ~InRange16(t.file, t.file.read_head)
       THEN Throws(t.file, "RangeError")
     ELSE Returns([t.file EXCEPT !.read_head = @ + 2,
                                 !.remaining_records = @ - 1],
                  readUInt16LE(t.file, t.file.read_head))

read_string(f) ==
  LET t == expect_type(f, GrammarDataType_STRING)
  IN IF t.thrown # undefined THEN t
     ELSE read_raw_string([t.file EXCEPT !.remaining_records = @ - 1])

read_byte(f) ==
  LET t == expect_type(f, BYTE)
  IN IF t.thrown # undefined THEN t
     ELSE next_type([t.file EXCEPT !.remaining_records = @ - 1])

skip_field(f) ==
  LET t == next_type(f)
  IN IF t.thrown # undefined THEN t
     ELSE LET g == [t.file EXCEPT !.remaining_records = @ - 1]
          IN CASE t.value = EMPTY -> Returns(g, undefined)
               [] t.value \in {GrammarDataType_BOOLEAN, BYTE} ->
                    Returns([g EXCEPT !.read_head = @ + 1], undefined)
               [] t.value = INT ->
                    Returns([g EXCEPT !.read_head = @ + 2], undefined)
               [] t.value = GrammarDataType_STRING ->
                    LET r == read_raw_string(g)
                    IN IF r.thrown # undefined THEN r
                       ELSE Returns(r.file, undefined)
               [] OTHER -> Throws(g, "Unknown data field type")

start_record(f) ==
  LET t == next_type(f)
  IN IF t.thrown # undefined THEN t
     ELSE IF t.value # MULTI THEN Throws(t.file, "Unexpected data type")
     ELSE IF ~InRange16(t.file, t.file.read_head)
       THEN Throws(t.file, "RangeError")
     ELSE LET n == readUInt16LE(t.file, t.file.read_head)
          IN Returns([t.file EXCEPT !.read_head = @ + 2,
                                    !.remaining_records = n], n)

record_finished(f) ==
  IF f.remaining_records < 0 THEN Throws(f, "Overshot record")
  ELSE Returns(f, f.remaining_records = 0)

----------------------------------------------------------------------------
(* The CGT loader.  A parse function is an operator from the reader (and    *)
(* the index the next table entry takes) to [file, value, thrown]; the      *)
(* statements of its body run in sequence until one throws.                 *)

CHARSET == 67
DFASTATE == 68
INITIALSTATES == 73
LRSTATE == 76
PARAMETER == 80
RULE == 82
SYMBOL == 83
COUNTS == 84
CHARRANGES == 99
GROUP == 103
PROPERTY == 112
COUNTS_V5 == 116

\* one call of a read method of the reader
FieldCall(op, f) ==
  CASE op = "read_int" -> read_int(f)
    [] op = "read_string" -> read_string(f)
    [] op = "read_bool" -> read_bool(f)
    [] op = "skip_field" -> skip_field(f)

\* the statements after a call: r is what the call gave, evaluated once;
\* when the call threw, so does the caller, else F(r) goes on
Then(r, F(_)) ==
  CHOOSE y \in { IF x.thrown # undefined THEN x ELSE F(x) : x \in {r} } : TRUE

\* the calls ops made one after the other; value is the values they gave
RECURSIVE read_fields(_, _, _)
read_fields(f, ops, values) ==
  IF ops = <<>> THEN Returns(f, values)
  ELSE Then(FieldCall(Head(ops), f),
            LAMBDA r : read_fields(r.file, Tail(ops),
                                   Append(values, r.value)))

\* let index = file.read_int(); if (index !== next_index) throw ...; then
\* the fixed fields ops of the record
read_indexed(f, next_index, ops) ==
  Then(read_int(f),
       LAMBDA i : IF i.value # next_index
                  THEN Throws(i.file, "Index out of order")
                  ELSE read_fields(i.file, ops, <<>>))

\* while (!file.eof() && !file.record_finished()) { ops }
RECURSIVE read_rows(_, _, _)
read_rows(f, ops, rows) ==
  IF eof(f) THEN Returns(f, rows)
  ELSE Then(record_finished(f),
            LAMBDA d :
              IF d.value THEN Returns(f, rows)
              ELSE Then(read_fields(f, ops, <<>>),
                        LAMBDA r : read_rows(r.file, ops,
                                             Append(rows, r.value))))

\* for (let i=0; !file.eof() && i<count; ++i) { ops }
RECURSIVE read_counted(_, _, _, _)
read_counted(f, ops, count, rows) ==
  IF eof(f) \/ Len(rows) >= count THEN Returns(f, rows)
  ELSE Then(read_fields(f, ops, <<>>),
            LAMBDA r : read_counted(r.file, ops, count,
                                    Append(rows, r.value)))

skip_record(f) ==
  Then(read_rows(f, <<"skip_field">>, <<>>),
       LAMBDA r : Returns(r.file, undefined))

parse_charset(f, next_index) ==
  Then(read_indexed(f, next_index, <<"read_string">>),
       LAMBDA r : Returns(r.file,
                          { r.value[1][k] : k \in 1..Len(r.value[1]) }))

parse_dfa_state(f, next_index) ==
  Then(read_indexed(f, next_index,
                    <<"read_bool", "read_int", "skip_field">>),
       LAMBDA h :
         Then(read_rows(h.file, <<"read_int", "read_int", "skip_field">>,
                        <<>>),
              LAMBDA r :
                Returns(r.file,
                  [result |-> IF h.value[1] THEN Some(h.value[2])
                              ELSE undefined,
                   edges |-> [k \in 1..Len(r.value) |->
                                [label |-> r.value[k][1],
                                 target |-> r.value[k][2]]]])))

parse_lr_state(f, next_index) ==
  Then(read_indexed(f, next_index, <<"skip_field">>),
       LAMBDA h :
         Then(read_rows(h.file,
                <<"read_int", "read_int", "read_int", "skip_field">>, <<>>),
              LAMBDA r :
                Returns(r.file,
                  [transitions |->
                     [k \in 1..Len(r.value) |->
                        [look_ahead_symbol |-> r.value[k][1],
                         action_type |-> r.value[k][2],
                         value |-> r.value[k][3]]]])))

\* Number.prototype.toString(): the decimal digits of n
RECURSIVE toString(_)
toString(n) ==
  LET digit == <<"0", "1", "2", "3", "4", "5", "6", "7", "8", "9">>
  IN IF n < 10 THEN digit[n + 1]
     ELSE toString(n \div 10) \o digit[(n % 10) + 1]

\* params is the sequence of the calls params.set(key, value) made
parse_parameter(f, params) ==
  Then(read_fields(f, <<"read_string", "read_string", "read_string",
                        "read_string", "read_bool", "read_int">>, <<>>),
       LAMBDA r :
         Returns(r.file,
           params \o << <<"Name", r.value[1]>>, <<"Version", r.value[2]>>,
                        <<"Author", r.value[3]>>, <<"About", r.value[4]>>,
                        <<"Case Sensitive",
                          IF r.value[5] THEN "True" ELSE "False">>,
                        <<"Start Symbol", toString(r.value[6])>> >>))

parse_reduction(f, next_index) ==
  Then(read_indexed(f, next_index, <<"read_int", "skip_field">>),
       LAMBDA h :
         Then(read_rows(h.file, <<"read_int">>, <<>>),
              LAMBDA r :
                Returns(r.file,
                  [index |-> next_index, produces |-> h.value[1],
                   consumes |-> [k \in 1..Len(r.value) |->
                                   r.value[k][1]]])))

parse_symbol(f, next_index) ==
  Then(read_indexed(f, next_index, <<"read_string", "read_int">>),
       LAMBDA r : Returns(r.file,
                          [name |-> r.value[1], type |-> r.value[2]]))

parse_char_ranges(f, next_index) ==
  Then(read_indexed(f, next_index,
                    <<"read_int", "read_int", "skip_field">>),
       LAMBDA h :
         Then(read_counted(h.file, <<"read_int", "read_int">>, h.value[2],
                           <<>>),
              LAMBDA r :
                Returns(r.file,
                        [codepage |-> h.value[1], ranges |-> r.value])))

parse_group(f, next_index) ==
  Then(read_indexed(f, next_index,
         <<"read_string", "read_int", "read_int", "read_int", "read_int",
           "read_int", "skip_field", "read_int">>),
       LAMBDA h :
         Then(read_counted(h.file, <<"read_int">>, h.value[8], <<>>),
              LAMBDA r :
                Returns(r.file,
                  [name |-> h.value[1], symbol |-> h.value[2],
                   start_symbol |-> h.value[3], end_symbol |-> h.value[4],
                   advance_mode |-> IF h.value[5] = 1 THEN "Char"
                                    ELSE "Token",
                   ending_mode |-> IF h.value[6] = 1 THEN "Closed"
                                   ELSE "Open",
                   nestable_groups |->
                     [k \in 1..Len(r.value) |-> r.value[k][1]]])))

parse_property(f, params) ==
  Then(read_fields(f, <<"skip_field", "read_string", "read_string">>, <<>>),
       LAMBDA r : Returns(r.file,
                          Append(params, <<r.value[2], r.value[3]>>)))

\* "GOLD Parser Tables/" in UTF-16 code units
Magic ==
  <<71, 79, 76, 68, 32, 80, 97, 114, 115, 101, 114, 32,
    84, 97, 98, 108, 101, 115, 47>>

LineTerminators == {10, 13, 8232, 8233}

\* /GOLD Parser Tables\/(v1|v5).0/ matches s at position k
MatchesAt(s, k) ==
  /\ k + Len(Magic) + 3 <= Len(s)
  /\ SubSeq(s, k, k + Len(Magic) - 1) = Magic
  /\ s[k + Len(Magic)] = 118
  /\ s[k + Len(Magic) + 1] \in {49, 53}
  /\ s[k + Len(Magic) + 2] \notin LineTerminators
  /\ s[k + Len(Magic) + 3] = 48

\* version_str.match(...): undefined for null, else the group (v1|v5)
version_match(s) ==
  LET ks == { k \in 1..Len(s) : MatchesAt(s, k) }
  IN IF ks = {} THEN undefined
     ELSE Some(IF s[MinOf(ks) + Len(Magic) + 1] = 49 THEN "v1" ELSE "v5")

\* load_cgt up to its loop: the header is read and the tables are empty
load_cgt_header(f) ==
  Then(read_raw_string(f),
       LAMBDA h :
         IF version_match(h.value) = undefined
         THEN Throws(h.file, "Magic string not found in file")
         ELSE Returns(h.file,
                [version |-> version_match(h.value)[1], charsets |-> <<>>,
                 params |-> <<>>, dfa_states |-> <<>>, dfa_init_state |-> 0,
                 lr_states |-> <<>>, lr_init_state |-> 0, rules |-> <<>>,
                 groups |-> <<>>, symbols |-> <<>>]))

\* array.push(parse(file, array.length)): the tables after the record's
\* parse function gave r
pushed(r, tables, field) ==
  Then(r, LAMBDA x : Returns(x.file,
                             [tables EXCEPT ![field] = Append(@, x.value)]))

\* parse(file, params), and the assignments of the INITIALSTATES case
assigned(r, tables, field) ==
  Then(r, LAMBDA x : Returns(x.file, [tables EXCEPT ![field] = x.value]))

\* the switch over record_type; a tag of no case runs no statement
load_cgt_switch(f, record_type, tables) ==
  CASE record_type = CHARSET ->
         pushed(parse_charset(f, Len(tables.charsets)), tables, "charsets")
    [] record_type = DFASTATE ->
         pushed(parse_dfa_state(f, Len(tables.dfa_states)), tables,
                "dfa_states")
    [] record_type = INITIALSTATES ->
         Then(assigned(read_int(f), tables, "dfa_init_state"),
              LAMBDA d : assigned(read_int(d.file), d.value,
                                  "lr_init_state"))
    [] record_type = LRSTATE ->
         pushed(parse_lr_state(f, Len(tables.lr_states)), tables,
                "lr_states")
    [] record_type = PARAMETER ->
         assigned(parse_parameter(f, tables.params), tables, "params")
    [] record_type = RULE ->
         pushed(parse_reduction(f, Len(tables.rules)), tables, "rules")
    [] record_type = SYMBOL ->
         pushed(parse_symbol(f, Len(tables.symbols)), tables, "symbols")
    [] record_type \in {COUNTS, COUNTS_V5} ->
         Then(skip_record(f), LAMBDA r : Returns(r.file, tables))
    [] record_type = CHARRANGES ->
         pushed(parse_char_ranges(f, Len(tables.charsets)), tables,
                "charsets")
    [] record_type = GROUP ->
         pushed(parse_group(f, Len(tables.groups)), tables, "groups")
    [] record_type = PROPERTY ->
         assigned(parse_property(f, tables.params), tables, "params")
    [] OTHER -> Returns(f, tables)

\* one turn of the loop of load_cgt: a record is started, its type byte
\* read, its body parsed and its field count checked
load_cgt_record(f, tables) ==
  Then(start_record(f),
       LAMBDA s :
         Then(read_byte(s.file),
              LAMBDA t :
                Then(load_cgt_switch(t.file, t.value, tables),
                     LAMBDA b :
                       Then(record_finished(b.file),
                            LAMBDA d :
                              IF ~d.value
                              THEN Throws(b.file,
                                          "Incomplete record reading")
                              ELSE b))))

----------------------------------------------------------------------------
(* The index tables load_cgt yields (CGTData) for the fixture grammars.    *)
(* One symbol table serves two grammars:                                    *)
(*   rules 0,1:  <E> ::= <E> '+' NUM | NUM        (LR states 0..4)          *)
(*   rules 2,3:  <L> ::=  | <L> NUM <O>           (LR states 5..9)          *)
(*   rules 4,5:  <O> ::= '+' |                                              *)
(* with whitespace and a closed block comment { ... } as skippables.        *)

CGTSymbols == <<
  [name |-> "EOF",        type |-> EOF],           \* 0
  [name |-> "Error",      type |-> ERROR],         \* 1
  [name |-> "Whitespace", type |-> SKIPPABLE],     \* 2
  [name |-> "NUM",        type |-> TERMINAL],      \* 3
  [name |-> "+",          type |-> TERMINAL],      \* 4
  [name |-> "E",          type |-> NON_TERMINAL],  \* 5
  [name |-> "L",          type |-> NON_TERMINAL],  \* 6
  [name |-> "{",          type |-> GROUP_START],   \* 7
  [name |-> "}",          type |-> GROUP_END],     \* 8
  [name |-> "Comment",    type |-> SKIPPABLE],     \* 9
  [name |-> "O",          type |-> NON_TERMINAL] >> \* 10

CGTGroups == <<
  [name |-> "Comment Block", symbol |-> 9, start_symbol |-> 7,
   end_symbol |-> 8, advance_mode |-> "Char", ending_mode |-> "Closed",
   nestable_groups |-> <<>>] >>

CGTCharsets == << {"1"}, {"+"}, {" "}, {"{"}, {"}"} >>

DEdge(l, t) == [label |-> l, target |-> t]

CGTDFAStates == <<
  [result |-> undefined,                                       \* 0
   edges |-> <<DEdge(0, 1), DEdge(1, 2), DEdge(2, 3), DEdge(3, 4), DEdge(4, 5)>>],
  [result |-> Some(3), edges |-> <<DEdge(0, 1)>>],             \* 1  NUM
  [result |-> Some(4), edges |-> <<>>],                        \* 2  '+'
  [result |-> Some(2), edges |-> <<DEdge(2, 3)>>],             \* 3  Whitespace
  [result |-> Some(7), edges |-> <<>>],                        \* 4  {
  [result |-> Some(8), edges |-> <<>>] >>                      \* 5  }

CGTRules == <<
  [index |-> 0, produces |-> 5, consumes |-> <<5, 4, 3>>],
  [index |-> 1, produces |-> 5, consumes |-> <<3>>],
  [index |-> 2, produces |-> 6, consumes |-> <<>>],
  [index |-> 3, produces |-> 6, consumes |-> <<6, 3, 10>>],
  [index |-> 4, produces |-> 10, consumes |-> <<4>>],
  [index |-> 5, produces |-> 10, consumes |-> <<>>] >>

Tr(sym, act, val) ==
  [look_ahead_symbol |-> sym, action_type |-> act, value |-> val]

CGTLRStates == <<
  [transitions |-> <<Tr(3, SHIFT, 1), Tr(5, GOTO, 2)>>],         \* 0
  [transitions |-> <<Tr(4, REDUCE, 1), Tr(0, REDUCE, 1)>>],      \* 1
  [transitions |-> <<Tr(4, SHIFT, 3), Tr(0, ACCEPT, 0)>>],       \* 2
  [transitions |-> <<Tr(3, SHIFT, 4)>>],                         \* 3
  [transitions |-> <<Tr(4, REDUCE, 0), Tr(0, REDUCE, 0)>>],      \* 4
  [transitions |-> <<Tr(3, REDUCE, 2), Tr(0, REDUCE, 2),
                     Tr(6, GOTO, 6)>>],                          \* 5
  [transitions |-> <<Tr(3, SHIFT, 7), Tr(0, ACCEPT, 0)>>],       \* 6
  [transitions |-> <<Tr(4, SHIFT, 8), Tr(3, REDUCE, 5),
                     Tr(0, REDUCE, 5), Tr(10, GOTO, 9)>>],       \* 7
  [transitions |-> <<Tr(3, REDUCE, 4), Tr(0, REDUCE, 4)>>],      \* 8
  [transitions |-> <<Tr(3, REDUCE, 3), Tr(0, REDUCE, 3)>>] >>    \* 9

\* the LR table with the transitions of state i replaced
Patch(states, i, ts) ==
  [k \in 1..Len(states) |->
     IF k = i + 1 THEN [transitions |-> ts] ELSE states[k]]

\* The LR tables the parses run over: the two sound tables, and tables a
\* corrupt or hand-made CGT file can hold as well (load_cgt checks none of
\* this): an Accept under a terminal, a Shift under EOF, a missing Goto,
\* reduces that ask for as many or more frames than the stack holds, an
\* epsilon reduce that leads back to its own state, an Accept in the
\* initial state.
LRFixtures == {
  [lr_init_state |-> 0, lr_states |-> CGTLRStates],
  [lr_init_state |-> 5, lr_states |-> CGTLRStates],
  [lr_init_state |-> 0, lr_states |->
     Patch(CGTLRStates, 2, <<Tr(4, ACCEPT, 0), Tr(0, ACCEPT, 0)>>)],
  [lr_init_state |-> 0, lr_states |->
     Patch(CGTLRStates, 2, <<Tr(4, SHIFT, 3), Tr(0, SHIFT, 3)>>)],
  [lr_init_state |-> 0, lr_states |->
     Patch(CGTLRStates, 0, <<Tr(3, SHIFT, 1)>>)],
  [lr_init_state |-> 0, lr_states |->
     Patch(CGTLRStates, 0, <<Tr(3, REDUCE, 1), Tr(5, GOTO, 2)>>)],
  [lr_init_state |-> 0, lr_states |->
     Patch(CGTLRStates, 0, <<Tr(3, REDUCE, 0), Tr(5, GOTO, 2)>>)],
  [lr_init_state |-> 5, lr_states |->
     Patch(CGTLRStates, 6, <<Tr(3, REDUCE, 2), Tr(0, ACCEPT, 0),
                             Tr(6, GOTO, 6)>>)],
  [lr_init_state |-> 5, lr_states |->
     Patch(CGTLRStates, 5, <<Tr(3, REDUCE, 2), Tr(0, ACCEPT, 0),
                             Tr(6, GOTO, 6)>>)] }

CGTFixtures ==
  { [version |-> "v5", charsets |-> CGTCharsets, dfa_states |-> CGTDFAStates,
     dfa_init_state |-> 0, lr_states |-> f.lr_states,
     lr_init_state |-> f.lr_init_state, rules |-> CGTRules,
     groups |-> CGTGroups, symbols |-> CGTSymbols] : f \in LRFixtures }

----------------------------------------------------------------------------
(* The table linker.  An LRState or DFAState object is named by its index  *)
(* (the memo maps lr_map and dfa_map hold one object per index), a rule    *)
(* and a symbol are held by value.  A symbol's group back-reference is the *)
(* field "group", present only on the symbols build_groups touched.        *)

\* the name mangling of build_symbols for one symbol
mangle(symbol) ==
  CASE symbol.type = TERMINAL     -> "'" \o symbol.name \o "'"
    [] symbol.type = NON_TERMINAL -> "<" \o symbol.name \o ">"
    [] symbol.type = EOF          -> "(EOF)"
    [] symbol.type = SKIPPABLE    -> "[" \o symbol.name \o "]"
    [] symbol.type = GROUP_START  -> "/" \o symbol.name \o "/"
    [] symbol.type = GROUP_END    -> "\\" \o symbol.name \o "\\"
    [] OTHER                      -> symbol.name

build_symbols(symbols) ==
  [i \in 1..Len(symbols) |->
     [name |-> mangle(symbols[i]), type |-> symbols[i].type]]

\* a symbol as a group holds it: without the back-reference to the group
Plain(symbol) ==
  IF symbol = undefined THEN undefined
  ELSE [name |-> symbol.name, type |-> symbol.type]

\* one MatchGroup of the loop of build_groups
link_group(parsed, parsed_groups, symbols) ==
  [name |-> parsed.name,
   symbol |-> Plain(At(symbols, parsed.symbol)),
   start_symbol |-> Plain(At(symbols, parsed.start_symbol)),
   end_symbol |-> Plain(At(symbols, parsed.end_symbol)),
   advance_mode |-> parsed.advance_mode,
   ending_mode |-> parsed.ending_mode,
   nestable_groups |->
     { At(parsed_groups, parsed.nestable_groups[k]).name :
         k \in 1..Len(parsed.nestable_groups) }]

\* symbols[i].group = group
set_group(symbols, i, group) ==
  [symbols EXCEPT ![i + 1] =
     [name |-> @.name, type |-> @.type, group |-> group]]

RECURSIVE build_groups_from(_, _, _)
build_groups_from(k, parsed_groups, symbols) ==
  IF k > Len(parsed_groups) THEN symbols
  ELSE LET parsed == parsed_groups[k]
           group  == link_group(parsed, parsed_groups, symbols)
       IN build_groups_from(k + 1, parsed_groups,
            set_group(set_group(symbols, parsed.start_symbol, group),
                      parsed.end_symbol, group))

\* String.prototype.toLowerCase on the names of the fixture tables: those
\* with upper-case letters, any other name is its own lower case
toLowerCase(name) ==
  CASE name = "(EOF)" -> "(eof)"
    [] name = "Error" -> "error"
    [] name = "[Whitespace]" -> "[whitespace]"
    [] name = "'NUM'" -> "'num'"
    [] name = "<E>" -> "<e>"
    [] name = "[Comment]" -> "[comment]"
    [] name = "Comment Line" -> "comment line"
    [] name = "'NewLine'" -> "'newline'"
    [] OTHER -> name

\* symbols.find(P): undefined, or the position of the first symbol with P
find(symbols, P(_)) ==
  LET ks == { k \in DOMAIN symbols : P(symbols[k]) }
  IN IF ks = {} THEN undefined ELSE Some(MinOf(ks))

\* the v1 branch of build_groups.  A group holds its symbols by reference:
\* the symbol that line_comment.type = GROUP_START reclassifies is of that
\* type in every group that holds it
v1_groups(symbols) ==
  LET comment_start == find(symbols, LAMBDA x : x.type = GROUP_START)
      comment_end == find(symbols, LAMBDA x : x.type = GROUP_END)
      line_comment == find(symbols, LAMBDA x : x.type = COMMENT_LINE)
      new_line == find(symbols, LAMBDA x : toLowerCase(x.name) = "'newline'")
      found == find(symbols, LAMBDA x : toLowerCase(x.name) = "[comment]")
      has_block == comment_start # undefined /\ comment_end # undefined
      has_line == line_comment # undefined /\ new_line # undefined
      ref(k) == IF has_line /\ k = line_comment[1]
                THEN [name |-> symbols[k].name, type |-> GROUP_START]
                ELSE Plain(symbols[k])
      comment_symbol == IF found = undefined
                        THEN [name |-> "Comment", type |-> SKIPPABLE]
                        ELSE ref(found[1])
      block_group ==
        [name |-> "Comment Block", symbol |-> comment_symbol,
         start_symbol |-> ref(comment_start[1]),
         end_symbol |-> ref(comment_end[1]),
         advance_mode |-> "Char", ending_mode |-> "Closed",
         nestable_groups |-> {}]
      line_group ==
        [name |-> "Comment Block", symbol |-> comment_symbol,
         start_symbol |-> ref(line_comment[1]),
         end_symbol |-> ref(new_line[1]),
         advance_mode |-> "Char", ending_mode |-> "Open",
         nestable_groups |-> {}]
      with_block ==
        IF has_block
        THEN set_group(set_group(symbols, comment_start[1] - 1, block_group),
                       comment_end[1] - 1, block_group)
        ELSE symbols
      with_line ==
        set_group(with_block, line_comment[1] - 1, line_group)
  IN IF has_line
     THEN set_group([with_line EXCEPT ![line_comment[1]].type = GROUP_START],
                    new_line[1] - 1, line_group)
     ELSE with_block

\* build_groups: the symbols with the back-references set
build_groups(parsed_groups, symbols, is_v1) ==
  LET linked == build_groups_from(1, parsed_groups, symbols)
  IN IF is_v1 THEN v1_groups(linked) ELSE linked

\* the rules as load_grammar_tables links them
build_rules(cgt_rules, symbols) ==
  [i \in 1..Len(cgt_rules) |->
     [produces |-> At(symbols, cgt_rules[i].produces),
      consumes |-> [k \in 1..Len(cgt_rules[i].consumes) |->
                      At(symbols, cgt_rules[i].consumes[k])],
      index |-> cgt_rules[i].index]]

RECURSIVE visit(_, _, _)
RECURSIVE visit_all(_, _, _, _)
\* the indices the memo map (dfa_map, lr_map) holds once
\* recursive_helper(current) returns; succ[i] are the targets state i
\* leads to, in table order
visit(succ, current, seen) ==
  IF current \in seen THEN seen
  ELSE visit_all(succ, succ[current], 1, seen \cup {current})
visit_all(succ, targets, k, seen) ==
  IF k > Len(targets) THEN seen
  ELSE visit_all(succ, targets, k + 1, visit(succ, targets[k], seen))

\* one DFAState object of build_dfa
build_dfa_state(current, states, charsets, symbols) ==
  LET parsed == At(states, current)
  IN [index |-> current,
      result |-> IF parsed.result = undefined
                    \/ At(symbols, parsed.result[1]) = undefined
                 THEN undefined
                 ELSE Some(At(symbols, parsed.result[1])),
      edges |-> [k \in 1..Len(parsed.edges) |->
                   [label |-> At(charsets, parsed.edges[k].label),
                    target |-> parsed.edges[k].target]]]

\* build_dfa: the initial state and the memo map of the states it reaches
build_dfa(initial, states, charsets, symbols) ==
  LET succ == [i \in 0..(Len(states) - 1) |->
                 [k \in 1..Len(At(states, i).edges) |->
                    At(states, i).edges[k].target]]
  IN [initial |-> initial,
      dfa_map |-> [i \in visit(succ, initial, {}) |->
                     build_dfa_state(i, states, charsets, symbols)]]

Accept == [type |-> ACCEPT]

\* the edge build_lr makes of one transition
lr_edge(transition, rules) ==
  CASE transition.action_type = ACCEPT -> Accept
    [] transition.action_type = REDUCE ->
         [type |-> REDUCE, target |-> At(rules, transition.value)]
    [] transition.action_type \in {GOTO, SHIFT} ->
         [type |-> transition.action_type, target |-> transition.value]

RECURSIVE lr_fill(_, _, _, _, _)
\* the loop of build_lr over the transitions of one state: Goto edges are
\* set in goto, the others in edges, a later entry replacing an earlier one
lr_fill(k, transitions, rules, symbols, state) ==
  IF k > Len(transitions) THEN state
  ELSE LET edge == lr_edge(transitions[k], rules)
           la_symbol == At(symbols, transitions[k].look_ahead_symbol)
       IN lr_fill(k + 1, transitions, rules, symbols,
            IF edge.type = GOTO
            THEN [state EXCEPT !.goto = MapSet(@, la_symbol.name, edge)]
            ELSE [state EXCEPT !.edges = MapSet(@, la_symbol.name, edge)])

\* one LRState object of build_lr
build_lr_state(current, states, rules, symbols) ==
  lr_fill(1, At(states, current).transitions, rules, symbols,
          [index |-> current, edges |-> EmptyMap, goto |-> EmptyMap])

\* build_lr: the initial state and the memo map of the states it reaches
build_lr(initial, states, rules, symbols) ==
  LET succ == [i \in 0..(Len(states) - 1) |->
                 LET ts == At(states, i).transitions
                     go == SelectSeq(ts, LAMBDA t : t.action_type \in {GOTO, SHIFT})
                 IN [k \in 1..Len(go) |-> go[k].value]]
  IN [initial |-> initial,
      lr_map |-> [i \in visit(succ, initial, {}) |->
                    build_lr_state(i, states, rules, symbols)]]

load_grammar_tables(cgt_data) ==
  LET symbols == build_groups(cgt_data.groups, build_symbols(cgt_data.symbols),
                              cgt_data.version = "v1")
      rules   == build_rules(cgt_data.rules, symbols)
      dfa     == build_dfa(cgt_data.dfa_init_state, cgt_data.dfa_states,
                           cgt_data.charsets, symbols)
      lalr    == build_lr(cgt_data.lr_init_state, cgt_data.lr_states,
                          rules, symbols)
  IN [dfa |-> dfa.initial, dfa_map |-> dfa.dfa_map,
      lalr |-> lalr.initial, lr_map |-> lalr.lr_map,
      rules |-> rules]

\* What load_grammar_tables raises.  Reading a[i] never fails; a TypeError
\* is raised where a property of the undefined a[i] is read or set.

Defined(a, i) == i + 1 \in DOMAIN a

\* the first of the outcomes that is an error, in the order they are made
FirstError(outcomes) ==
  LET errors == SelectSeq(outcomes, LAMBDA e : e # undefined)
  IN IF errors = <<>> THEN undefined ELSE errors[1]

\* one turn of the loop of build_groups: parsed_groups[nestable].name, then
\* group.start_symbol.group and group.end_symbol.group
link_group_throws(parsed, parsed_groups, symbols) ==
  IF \E k \in 1..Len(parsed.nestable_groups) :
       ~Defined(parsed_groups, parsed.nestable_groups[k])
    THEN Some("TypeError")
  ELSE IF ~Defined(symbols, parsed.start_symbol) THEN Some("TypeError")
  ELSE IF ~Defined(symbols, parsed.end_symbol) THEN Some("TypeError")
  ELSE undefined

build_groups_throws(parsed_groups, symbols) ==
  FirstError([k \in 1..Len(parsed_groups) |->
                link_group_throws(parsed_groups[k], parsed_groups, symbols)])

RECURSIVE dfa_helper(_, _, _)
RECURSIVE dfa_helper_edges(_, _, _, _)
\* recursive_helper of build_dfa: the indices memoized, or the error raised
\* by parsed.result of an undefined states[current]
dfa_helper(states, current, walk) ==
  IF walk.error # undefined \/ current \in walk.seen THEN walk
  ELSE IF ~Defined(states, current)
    THEN [walk EXCEPT !.error = Some("TypeError")]
  ELSE dfa_helper_edges(states, At(states, current).edges, 1,
                        [walk EXCEPT !.seen = @ \cup {current}])
dfa_helper_edges(states, edges, k, walk) ==
  IF walk.error # undefined \/ k > Len(edges) THEN walk
  ELSE dfa_helper_edges(states, edges, k + 1,
                        dfa_helper(states, edges[k].target, walk))

RECURSIVE lr_helper(_, _, _, _)
RECURSIVE lr_helper_transitions(_, _, _, _, _)
\* recursive_helper of build_lr: the indices memoized, or the error raised
\* by parsed.transitions of an undefined states[current], by an action type
\* that is none of the four, or by look_ahead.name of an undefined symbol
lr_helper(states, symbols, current, walk) ==
  IF walk.error # undefined \/ current \in walk.seen THEN walk
  ELSE IF ~Defined(states, current)
    THEN [walk EXCEPT !.error = Some("TypeError")]
  ELSE lr_helper_transitions(states, symbols, At(states, current).transitions,
                             1, [walk EXCEPT !.seen = @ \cup {current}])
lr_helper_transitions(states, symbols, transitions, k, walk) ==
  IF walk.error # undefined \/ k > Len(transitions) THEN walk
  ELSE
    LET t == transitions[k]
        after_edge ==
          IF t.action_type \in {GOTO, SHIFT}
            THEN lr_helper(states, symbols, t.value, walk)
          ELSE IF t.action_type \in {ACCEPT, REDUCE} THEN walk
          ELSE [walk EXCEPT !.error = Some("Action type not supported")]
        after_name ==
          IF after_edge.error = undefined
             /\ ~Defined(symbols, t.look_ahead_symbol)
            THEN [after_edge EXCEPT !.error = Some("TypeError")]
          ELSE after_edge
    IN lr_helper_transitions(states, symbols, transitions, k + 1, after_name)

NoWalk == [seen |-> {}, error |-> undefined]

\* undefined, or the message of the Error load_grammar_tables raises
load_grammar_tables_throws(cgt_data) ==
  FirstError(<<
    build_groups_throws(cgt_data.groups, cgt_data.symbols),
    dfa_helper(cgt_data.dfa_states, cgt_data.dfa_init_state, NoWalk).error,
    lr_helper(cgt_data.lr_states, cgt_data.symbols, cgt_data.lr_init_state,
              NoWalk).error >>)

----------------------------------------------------------------------------
(* The DFA lexer and the group engine (next_token of lexer.ts).  A token   *)
(* is [symbol, value, position]; a group error is [position, groups].      *)

EofSymbol == [name |-> "(EOF)", type |-> EOF]

\* the index of the first edge of a DFA state whose class contains c, or 0
first_edge(edges, c) ==
  LET hits == {k \in 1..Len(edges) : c \in edges[k].label}
  IN IF hits = {} THEN 0 ELSE MinOf(hits)

RECURSIVE dfa_walk(_, _, _, _, _)
\* the walk from `state` at `pos`: the last accepting (state, position) seen
dfa_walk(g, input, pos, state, last_accept) ==
  IF pos >= Len(input) THEN last_accept
  ELSE LET edges == g.dfa_map[state].edges
           k == first_edge(edges, At(input, pos))
       IN IF k = 0 THEN last_accept
          ELSE LET target == edges[k].target
               IN dfa_walk(g, input, pos + 1, target,
                    IF g.dfa_map[target].result # undefined
                    THEN Some([state |-> target, position |-> pos + 1])
                    ELSE last_accept)

\* longest match at `offset`: a token, or undefined for a lexical error
dfa_token(g, input, offset) ==
  LET last_accept ==
        dfa_walk(g, input, offset, g.dfa,
                 IF g.dfa_map[g.dfa].result # undefined
                 THEN Some([state |-> g.dfa, position |-> offset])
                 ELSE undefined)
  IN IF last_accept # undefined
     THEN Some([symbol |-> g.dfa_map[last_accept[1].state].result[1],
                value |-> SubSeq(input, offset + 1, last_accept[1].position),
                position |-> offset])
     ELSE IF offset >= Len(input)
     THEN Some([symbol |-> EofSymbol, value |-> <<>>, position |-> offset])
     ELSE undefined

\* the symbol starts a group: it carries one and is that group's start
starts_group(symbol) ==
  /\ "group" \in DOMAIN symbol
  /\ symbol.group.start_symbol.name = symbol.name

RECURSIVE group_scan(_, _, _, _)
\* the group engine inside `group` from `pos` on: [end |-> e], the offset
\* just past the group's value, or [groups |-> names] of the groups that
\* the end of the input leaves unterminated
group_scan(g, input, pos, group) ==
  IF pos >= Len(input)
  THEN IF group.ending_mode = "Open" THEN [end |-> pos]
       ELSE [groups |-> <<group.name>>]
  ELSE
    LET t == dfa_token(g, input, pos)
        len == IF t = undefined THEN 0 ELSE Len(t[1].value)
    IN IF t # undefined /\ t[1].symbol.name = group.end_symbol.name
       THEN [end |-> IF group.ending_mode = "Closed" THEN pos + len ELSE pos]
       ELSE IF /\ t # undefined
               /\ starts_group(t[1].symbol)
               /\ t[1].symbol.group.name \in group.nestable_groups
            THEN LET sub == group_scan(g, input, pos + len, t[1].symbol.group)
                 IN IF "groups" \in DOMAIN sub
                    THEN [groups |-> <<group.name>> \o sub.groups]
                    ELSE group_scan(g, input, sub.end, group)
            ELSE group_scan(g, input,
                   IF group.advance_mode = "Char" \/ len = 0
                   THEN pos + 1 ELSE pos + len,
                   group)

\* next_token(str, pos, dfa): undefined, a token or a group error
next_token(g, input, pos) ==
  LET t == dfa_token(g, input, pos)
  IN IF t = undefined \/ ~starts_group(t[1].symbol) THEN t
     ELSE LET group == t[1].symbol.group
              scan == group_scan(g, input, pos + Len(t[1].value), group)
          IN IF "groups" \in DOMAIN scan
             THEN Some([position |-> pos, groups |-> scan.groups])
             ELSE Some([symbol |-> group.symbol,
                        value |-> SubSeq(input, pos + 1, scan.end),
                        position |-> pos])

----------------------------------------------------------------------------
(* The LALR driver.  A parse tree node is [symbol, children, start, end];  *)
(* its children (Token | Array<LRParseTreeNode>) are [token |-> t] for a   *)
(* leaf and [nodes |-> <<...>>] for an inner node.  A stack frame is       *)
(* [parse_tree, current_state], current_state being the LR state's index.  *)

\* a || b of JavaScript, a being a number or undefined
JsOr(a, b) == IF a # undefined /\ a[1] # 0 THEN a[1] ELSE b

\* shift_frame with an empty node in place of the token
shift_frame_no_token(la, target) ==
  [current_state |-> target,
   parse_tree |-> [symbol |-> la.symbol,
                   children |-> [nodes |-> <<>>],
                   start |-> la.position,
                   end |-> la.position + Len(la.value)]]

\* the frame a Shift pushes
shift_frame(la, target) ==
  [current_state |-> target,
   parse_tree |-> [symbol |-> la.symbol,
                   children |-> [token |-> la],
                   start |-> la.position,
                   end |-> la.position + Len(la.value)]]

\* reduce_node with the span of an epsilon node taken from the start, not
\* the end, of the frame below
reduce_node_from_start(rule, consumes, top) ==
  [symbol |-> rule.produces,
   children |-> [nodes |-> consumes],
   start |-> JsOr(IF consumes = <<>> THEN undefined
                  ELSE Some(consumes[1].start), top.parse_tree.start),
   end |-> JsOr(IF consumes = <<>> THEN undefined
                ELSE Some(Last(consumes).end), top.parse_tree.start)]

\* the node a Reduce builds above the frame `top` the pops exposed
reduce_node(rule, consumes, top) ==
  [symbol |-> rule.produces,
   children |-> [nodes |-> consumes],
   start |-> JsOr(IF consumes = <<>> THEN undefined
                  ELSE Some(consumes[1].start), top.parse_tree.end),
   end |-> JsOr(IF consumes = <<>> THEN undefined
                ELSE Some(Last(consumes).end), top.parse_tree.end)]

\* the stack has fewer frames than the rule consumes (the State mismatch test)
state_mismatch(stk, rule) == Len(stk) < Len(rule.consumes)

\* lalr_reduce looking the Goto up in the state that was on top before the
\* pops
lalr_reduce_goto_before_pop(rule, stk, g) ==
  IF state_mismatch(stk, rule)
  THEN [step |-> "THROW", stack |-> stk, error |-> "State mismatch"]
  ELSE
    LET n == Len(rule.consumes)
        rest == SubSeq(stk, 1, Len(stk) - n)
        consumes == [k \in 1..n |-> stk[Len(stk) - n + k].parse_tree]
    IN IF rest = <<>>
       THEN [step |-> "THROW", stack |-> rest, error |-> "TypeError"]
       ELSE
         LET top_state == g.lr_map[Last(stk).current_state]
             next_state == MapGet(top_state.goto, rule.produces.name)
         IN IF next_state = undefined
            THEN [step |-> "THROW", stack |-> rest,
                  error |-> "GOTO not found for Symbol"]
            ELSE [step |-> "REDUCE",
                  stack |-> Append(rest,
                    [parse_tree |-> reduce_node(rule, consumes, Last(rest)),
                     current_state |-> next_state[1].target])]

\* lalr_reduce with the popped parse trees taken in the order of the pops,
\* the top frame first
lalr_reduce_pop_order(rule, stk, g) ==
  IF state_mismatch(stk, rule)
  THEN [step |-> "THROW", stack |-> stk, error |-> "State mismatch"]
  ELSE
    LET n == Len(rule.consumes)
        rest == SubSeq(stk, 1, Len(stk) - n)
        consumes == [k \in 1..n |-> stk[Len(stk) - k + 1].parse_tree]
    IN IF rest = <<>>
       THEN [step |-> "THROW", stack |-> rest, error |-> "TypeError"]
       ELSE
         LET top_state == g.lr_map[Last(rest).current_state]
             next_state == MapGet(top_state.goto, rule.produces.name)
         IN IF next_state = undefined
            THEN [step |-> "THROW", stack |-> rest,
                  error |-> "GOTO not found for Symbol"]
            ELSE [step |-> "REDUCE",
                  stack |-> Append(rest,
                    [parse_tree |-> reduce_node(rule, consumes, Last(rest)),
                     current_state |-> next_state[1].target])]

\* the Reduce of lalr_step; step "THROW" is a raised Error
lalr_reduce(rule, stk, g) ==
  IF state_mismatch(stk, rule)
  THEN [step |-> "THROW", stack |-> stk, error |-> "State mismatch"]
  ELSE
    LET n == Len(rule.consumes)
        rest == SubSeq(stk, 1, Len(stk) - n)
        consumes == [k \in 1..n |-> stk[Len(stk) - n + k].parse_tree]
    IN IF rest = <<>>
       \* stack[stack.length-1] is undefined: reading its current_state
       THEN [step |-> "THROW", stack |-> rest, error |-> "TypeError"]
       ELSE
         LET top_state == g.lr_map[Last(rest).current_state]
             next_state == MapGet(top_state.goto, rule.produces.name)
         IN IF next_state = undefined
            THEN [step |-> "THROW", stack |-> rest,
                  error |-> "GOTO not found for Symbol"]
            ELSE [step |-> "REDUCE",
                  stack |-> Append(rest,
                    [parse_tree |-> reduce_node(rule, consumes, Last(rest)),
                     current_state |-> next_state[1].target])]

\* lalr_step dropping the top frame when the look-ahead has no entry
lalr_step_error_pops(la, stk, g) ==
  LET current_state == g.lr_map[Last(stk).current_state]
      transition == MapGet(current_state.edges, la.symbol.name)
  IN IF transition = undefined
     THEN [step |-> "ERROR", stack |-> IF Len(stk) > 1 THEN Front(stk) ELSE stk]
     ELSE IF transition[1] = Accept THEN [step |-> "ACCEPT", stack |-> stk]
     ELSE IF transition[1].type = SHIFT
     THEN [step |-> "SHIFT",
           stack |-> Append(stk, shift_frame(la, transition[1].target))]
     ELSE lalr_reduce(transition[1].target, stk, g)

\* lalr_step taking a missing edges entry for an Accept
lalr_step_accept_default(la, stk, g) ==
  LET current_state == g.lr_map[Last(stk).current_state]
      transition == MapGet(current_state.edges, la.symbol.name)
  IN IF transition = undefined \/ transition[1] = Accept
     THEN [step |-> "ACCEPT", stack |-> stk]
     ELSE IF transition[1].type = SHIFT
     THEN [step |-> "SHIFT",
           stack |-> Append(stk, shift_frame(la, transition[1].target))]
     ELSE lalr_reduce(transition[1].target, stk, g)

\* lalr_step(look_ahead, stack): the step's result and the stack it leaves
lalr_step(la, stk, g) ==
  LET current_state == g.lr_map[Last(stk).current_state]
      transition == MapGet(current_state.edges, la.symbol.name)
  IN IF transition = undefined THEN [step |-> "ERROR", stack |-> stk]
     ELSE IF transition[1] = Accept THEN [step |-> "ACCEPT", stack |-> stk]
     ELSE IF transition[1].type = SHIFT
     THEN [step |-> "SHIFT",
           stack |-> Append(stk, shift_frame(la, transition[1].target))]
     ELSE lalr_reduce(transition[1].target, stk, g)

lalr_setup(initial_state) ==
  << [current_state |-> initial_state,
      parse_tree |-> [symbol |-> [name |-> "INITIAL_STATE", type |-> ERROR],
                      children |-> [nodes |-> <<>>],
                      start |-> 0,
                      end |-> 0]] >>

\* the string "(EOF)" of ParserError.last_token ("(EOF)"|Token), held as a
\* record so that it can be compared with a token
EOF_SENTINEL == [literal |-> "(EOF)"]

\* the discriminators: "k" in result
parse_successful(r) == "symbol" \in DOMAIN r /\ "children" \in DOMAIN r
is_lexer_error(r) == "position" \in DOMAIN r
is_parser_error(r) == "last_token" \in DOMAIN r /\ "stack" \in DOMAIN r

----------------------------------------------------------------------------
(* parse_string.  An invocation's locals are gathered in a record st =     *)
(* [pc, look_ahead, current_pos, stack, tok, result, thrown, trace]; each  *)
(* operator below is the code between two points where the driver can be   *)
(* suspended (the awaits of the hooks) or ends.  h says which hooks are    *)
(* given.  trace is a history of the run: "lex" for a token next_token     *)
(* returned, "step" for a call of lalr_step, and one entry per hook call   *)
(* with the arguments passed.                                              *)

returns(st, value) == [st EXCEPT !.pc = "returned", !.result = Some(value)]
throws(st, message) == [st EXCEPT !.pc = "thrown", !.thrown = Some(message)]

\* after_on_token that hands every token, skippable or not, to the LR step
after_on_token_keep(st) ==
  [st EXCEPT !.pc = "loop", !.tok = undefined, !.look_ahead = st.tok]

\* after the await of on_token: a skippable token is dropped, any other
\* becomes the look-ahead
after_on_token(st) ==
  IF st.tok[1].symbol.type = SKIPPABLE
  THEN [st EXCEPT !.pc = "loop", !.tok = undefined]
  ELSE [st EXCEPT !.pc = "loop", !.tok = undefined, !.look_ahead = st.tok]

\* a turn of the loop with no look-ahead, up to the await of on_token; with
\* the loop condition false (the cursor past the input) the loop is left
parse_string_lex(st, g, input, h) ==
  IF ~(st.current_pos <= Len(input))
  THEN returns(st, [stack |-> st.stack, last_token |-> EOF_SENTINEL])
  ELSE
    LET t == next_token(g, input, st.current_pos)
    IN IF t = undefined THEN returns(st, [position |-> st.current_pos])
       ELSE IF "groups" \in DOMAIN t[1] THEN returns(st, t[1])
       ELSE
         LET lexed == [st EXCEPT
                         !.current_pos = @ + Len(t[1].value),
                         !.tok = t,
                         !.trace = Append(@, [ev |-> "lex", token |-> t[1]])]
         IN IF h.on_token
            THEN [lexed EXCEPT
                    !.pc = "on_token",
                    !.trace = Append(@, [ev |-> "on_token", token |-> t[1]])]
            ELSE after_on_token(lexed)

\* after the await of on_shift: the look-ahead is cleared
after_on_shift(st) == [st EXCEPT !.pc = "loop", !.look_ahead = undefined]

\* after the await of on_reduce: the look-ahead stays
after_on_reduce(st) == [st EXCEPT !.pc = "loop"]

\* lr_event reporting the state on top after the step as origin_state
lr_event_after(hook, origin, la, stk) ==
  [ev |-> hook, origin_state |-> Last(stk).current_state, look_ahead |-> la,
   stack |-> stk]

\* lr_event passing a stack whose top frame still holds the origin state
lr_event_origin_top(hook, origin, la, stk) ==
  [ev |-> hook, origin_state |-> origin, look_ahead |-> la,
   stack |-> Append(Front(stk), [Last(stk) EXCEPT !.current_state = origin])]

\* the arguments of a call of on_shift or on_reduce
lr_event(hook, origin, la, stk) ==
  [ev |-> hook, origin_state |-> origin, look_ahead |-> la, stack |-> stk]

\* a turn of the loop with a look-ahead, up to the await of a hook
parse_string_step(st, g, h) ==
  LET la == st.look_ahead[1]
      current_state == Last(st.stack).current_state
      r == lalr_step(la, st.stack, g)
      stepped == [st EXCEPT
                    !.stack = r.stack,
                    !.trace = Append(@,
                       [ev |-> "step", step |-> r.step, look_ahead |-> la,
                        origin_state |-> current_state,
                        transition |->
                          MapGet(g.lr_map[current_state].edges,
                                 la.symbol.name)])]
  IN CASE r.step = "THROW" -> throws(stepped, r.error)
       [] r.step = "ACCEPT" ->
            returns([stepped EXCEPT !.stack = Front(r.stack)],
                    Last(r.stack).parse_tree)
       [] r.step = "ERROR" ->
            returns(stepped, [last_token |-> la, stack |-> r.stack])
       [] r.step = "REDUCE" ->
            IF h.on_reduce
            THEN [stepped EXCEPT
                    !.pc = "on_reduce",
                    !.trace = Append(@, lr_event("on_reduce", current_state,
                                                 la, r.stack))]
            ELSE after_on_reduce(stepped)
       [] r.step = "SHIFT" ->
            IF la.symbol.type = EOF
            THEN throws(stepped, "Shifting EOF should never happen")
            ELSE IF h.on_shift
            THEN [stepped EXCEPT
                    !.pc = "on_shift",
                    !.trace = Append(@, lr_event("on_shift", current_state,
                                                 la, r.stack))]
            ELSE after_on_shift(stepped)

\* the locals of a fresh invocation
parse_string_start(lalr) ==
  [pc |-> "loop", look_ahead |-> undefined, current_pos |-> 0,
   stack |-> lalr_setup(lalr), tok |-> undefined, result |-> undefined,
   thrown |-> undefined, trace |-> <<>>]

----------------------------------------------------------------------------
(* The state machine: invocations of parse_string over one linked grammar. *)

Procs == {1, 2}
Alphabet == {"1", "+", " ", "{", "}", "@"}
Inputs == UNION { [1..n -> Alphabet] : n \in 0..MaxLen }
Hooks == [on_token : BOOLEAN, on_reduce : BOOLEAN, on_shift : BOOLEAN]
NoHooks == [on_token |-> FALSE, on_reduce |-> FALSE, on_shift |-> FALSE]
Grammars == { load_grammar_tables(c) : c \in CGTFixtures }

\* one invocation run alone from locals st to its end, with no other code
\* run during its awaits; a stack above MaxStack frames ends the run as the
\* guard of LRStep does
RECURSIVE parse_string_from(_, _, _, _)
parse_string_from(st, g, input, h) ==
  IF st.pc = "on_token" THEN parse_string_from(after_on_token(st), g, input, h)
  ELSE IF st.pc = "on_shift"
    THEN parse_string_from(after_on_shift(st), g, input, h)
  ELSE IF st.pc = "on_reduce"
    THEN parse_string_from(after_on_reduce(st), g, input, h)
  ELSE IF st.pc # "loop" THEN st
  ELSE IF st.look_ahead = undefined
    THEN parse_string_from(parse_string_lex(st, g, input, h), g, input, h)
  ELSE IF Len(st.stack) > MaxStack THEN st
  ELSE parse_string_from(parse_string_step(st, g, h), g, input, h)

parse_string(g, input, h) ==
  parse_string_from(parse_string_start(g.lalr), g, input, h)

\* an invocation that was never made
Idle ==
  [pc |-> "idle", look_ahead |-> undefined, current_pos |-> 0,
   stack |-> <<>>, tok |-> undefined, result |-> undefined,
   thrown |-> undefined, trace |-> <<>>]

\* Set with one stack shared by every invocation
Set_shared_stack(p, st) ==
  /\ pc' = [pc EXCEPT ![p] = st.pc]
  /\ look_ahead' = [look_ahead EXCEPT ![p] = st.look_ahead]
  /\ current_pos' = [current_pos EXCEPT ![p] = st.current_pos]
  /\ stack' = [q \in Procs |-> IF pc[q] = "idle" THEN stack[q] ELSE st.stack]
  /\ tok' = [tok EXCEPT ![p] = st.tok]
  /\ result' = [result EXCEPT ![p] = st.result]
  /\ thrown' = [thrown EXCEPT ![p] = st.thrown]
  /\ trace' = [trace EXCEPT ![p] = st.trace]
  /\ UNCHANGED <<grammar, str, hooks, file, cgt, lpc, lret, objects,
                 state_map, calls>>

State(p) ==
  [pc |-> pc[p], look_ahead |-> look_ahead[p], current_pos |-> current_pos[p],
   stack |-> stack[p], tok |-> tok[p], result |-> result[p],
   thrown |-> thrown[p], trace |-> trace[p]]

Set(p, st) ==
  /\ pc' = [pc EXCEPT ![p] = st.pc]
  /\ look_ahead' = [look_ahead EXCEPT ![p] = st.look_ahead]
  /\ current_pos' = [current_pos EXCEPT ![p] = st.current_pos]
  /\ stack' = [stack EXCEPT ![p] = st.stack]
  /\ tok' = [tok EXCEPT ![p] = st.tok]
  /\ result' = [result EXCEPT ![p] = st.result]
  /\ thrown' = [thrown EXCEPT ![p] = st.thrown]
  /\ trace' = [trace EXCEPT ![p] = st.trace]
  /\ UNCHANGED <<grammar, str, hooks, file, cgt, lpc, lret, objects,
                 state_map, calls>>

\* build_dfa and build_lr are not running
NoBuild == objects = <<>> /\ state_map = <<>> /\ calls = <<>>

\* no reader is open and no table is being loaded or linked
NoFile == [data |-> <<>>, read_head |-> 0, remaining_records |-> 0]
NoTables == [version |-> "none"]
NoCall == [op |-> "none", thrown |-> undefined, value |-> undefined]

\* the invocations sts[p] over grammar g, inputs ins[p] and hooks hs[p], the
\* tables of g loaded and linked before
Start(g, ins, hs, sts) ==
  /\ grammar = g
  /\ str = ins
  /\ hooks = hs
  /\ pc = [p \in Procs |-> sts[p].pc]
  /\ look_ahead = [p \in Procs |-> sts[p].look_ahead]
  /\ current_pos = [p \in Procs |-> sts[p].current_pos]
  /\ stack = [p \in Procs |-> sts[p].stack]
  /\ tok = [p \in Procs |-> sts[p].tok]
  /\ result = [p \in Procs |-> sts[p].result]
  /\ thrown = [p \in Procs |-> sts[p].thrown]
  /\ trace = [p \in Procs |-> sts[p].trace]
  /\ file = NoFile /\ cgt = NoTables /\ lpc = "linked" /\ lret = NoCall
  /\ NoBuild

\* one invocation, of any input, hooks and table
Init ==
  \E g \in Grammars, input \in Inputs, h \in Hooks :
    Start(g, <<input, <<>>>>, <<h, NoHooks>>,
          <<parse_string_start(g.lalr), Idle>>)

Lex(p) ==
  /\ pc[p] = "loop"
  /\ look_ahead[p] = undefined
  /\ Set(p, parse_string_lex(State(p), grammar, str[p], hooks[p]))

ResumeToken(p) ==
  /\ pc[p] = "on_token"
  /\ Set(p, after_on_token(State(p)))

LRStep(p) ==
  /\ pc[p] = "loop"
  /\ look_ahead[p] # undefined
  /\ Len(stack[p]) <= MaxStack
  /\ Set(p, parse_string_step(State(p), grammar, hooks[p]))

ResumeReduce(p) ==
  /\ pc[p] = "on_reduce"
  /\ Set(p, after_on_reduce(State(p)))

ResumeShift(p) ==
  /\ pc[p] = "on_shift"
  /\ Set(p, after_on_shift(State(p)))

Next ==
  \E p \in Procs :
    \/ Lex(p)
    \/ ResumeToken(p)
    \/ LRStep(p)
    \/ ResumeReduce(p)
    \/ ResumeShift(p)

Spec == Init /\ [][Next]_vars

\* the token stream of input from pos on: the tokens next_token returns up
\* to the Eof token, or up to the failure that ends the stream
RECURSIVE lex_all(_, _, _)
lex_all(g, input, pos) ==
  LET t == next_token(g, input, pos)
  IN IF t = undefined THEN << [failure |-> "lexer"] >>
     ELSE IF "groups" \in DOMAIN t[1]
       THEN << [failure |-> "group", groups |-> t[1].groups] >>
     ELSE IF t[1].symbol.type = EOF \/ Len(t[1].value) = 0 THEN << t[1] >>
     ELSE << t[1] >> \o lex_all(g, input, pos + Len(t[1].value))

\* a token without its offset
NoPos(t) ==
  IF "position" \in DOMAIN t THEN [symbol |-> t.symbol, value |-> t.value]
  ELSE t

IsSkippable(t) == "symbol" \in DOMAIN t /\ t.symbol.type = SKIPPABLE
IsSignificant(t) == ~IsSkippable(t)

\* the significant tokens of a stream, offsets left out
Significant(ts) ==
  LET sig == SelectSeq(ts, IsSignificant)
  IN [k \in 1..Len(sig) |-> NoPos(sig[k])]

\* inputs a and b lex to streams that differ only by skippable tokens
SameStream(g, a, b) ==
  Significant(lex_all(g, a, 0)) = Significant(lex_all(g, b, 0))

AllHooks == [on_token |-> TRUE, on_reduce |-> TRUE, on_shift |-> TRUE]

\* input a with the characters f put in after its first k characters
Insert(a, k, f) == SubSeq(a, 1, k) \o f \o SubSeq(a, k + 1, Len(a))

\* the texts of a skippable token, white space and a comment, and no text
Fillers == { << >>, << " " >>, << "{", "}" >> }

\* two invocations over the same tables: the first of an input a, the
\* second of a with skippable texts put in at one or two places; the second
\* is given every hook, so that it can be suspended at each await
InitPair ==
  \E g \in Grammars, a \in Inputs, k1 \in 0..MaxLen, f1 \in Fillers,
     k2 \in 0..MaxLen, f2 \in Fillers :
    LET b == Insert(Insert(a, k1, f1), k2, f2)
    IN /\ k1 <= Len(a) /\ k1 <= k2 /\ k2 <= Len(a) + Len(f1)
       /\ f1 # <<>>
       /\ Len(b) <= MaxLen
       /\ Start(g, <<a, b>>, <<NoHooks, AllHooks>>,
                <<parse_string_start(g.lalr), parse_string_start(g.lalr)>>)

SpecPair == InitPair /\ [][Next]_vars

----------------------------------------------------------------------------
(* Linking: load_grammar_tables applied to the tables of a CGT file.  The  *)
(* tables are those of the fixture grammar with two more symbols of one    *)
(* raw name and any two kinds, both look-aheads of LR state 3.             *)

Kinds == NON_TERMINAL..ERROR

BaseTables == CHOOSE c \in CGTFixtures :
                c.lr_init_state = 0 /\ c.lr_states = CGTLRStates

TwinSymbols(k1, k2) ==
  CGTSymbols \o << [name |-> "X", type |-> k1], [name |-> "X", type |-> k2] >>

TwinTables ==
  { [BaseTables EXCEPT
       !.symbols = TwinSymbols(k[1], k[2]),
       !.lr_states = Patch(CGTLRStates, 3,
                           <<Tr(3, SHIFT, 4), Tr(11, SHIFT, 4),
                             Tr(12, REDUCE, 1)>>)] :
      k \in { kk \in Kinds \X Kinds : kk[1] # kk[2] } }

\* an index that no table of the fixture has an entry for
NoEntry == 99

\* the fixture tables with one reference replaced by NoEntry: of a rule to
\* its produced and consumed symbols, of a Reduce to its rule, of a DFA
\* state to its symbol, of a DFA edge to its charset and target, of a Shift
\* to its target, of a transition to its look-ahead, of a group to its
\* symbol and its start symbol
DanglingTables ==
  { [BaseTables EXCEPT !.rules[2].produces = NoEntry],
    [BaseTables EXCEPT !.rules[2].consumes = <<NoEntry>>],
    [BaseTables EXCEPT !.lr_states[2].transitions[1].value = NoEntry],
    [BaseTables EXCEPT !.dfa_states[2].result = Some(NoEntry)],
    [BaseTables EXCEPT !.dfa_states[1].edges[1].label = NoEntry],
    [BaseTables EXCEPT !.dfa_states[1].edges[1].target = NoEntry],
    [BaseTables EXCEPT !.lr_states[1].transitions[1].value = NoEntry],
    [BaseTables EXCEPT !.lr_states[1].transitions[1].look_ahead_symbol = NoEntry],
    [BaseTables EXCEPT !.groups[1].symbol = NoEntry],
    [BaseTables EXCEPT !.groups[1].start_symbol = NoEntry] }

\* Tables without g records, of either version: the symbols of the fixture
\* that are no part of a comment, then any of a GroupStart, a GroupEnd, a
\* CommentLine, a terminal NewLine and a skippable Comment; the Error
\* symbol is named "Error" or "[Comment]".  DFA state i + 1 accepts symbol i.
CommentParts == {"start", "end", "line", "newline", "comment", "bracketed"}

CommentSymbols(parts) ==
  << [name |-> "EOF", type |-> EOF],
     [name |-> IF "bracketed" \in parts THEN "[Comment]" ELSE "Error",
      type |-> ERROR],
     [name |-> "Whitespace", type |-> SKIPPABLE],
     [name |-> "NUM", type |-> TERMINAL] >>
  \o (IF "start" \in parts
      THEN << [name |-> "{", type |-> GROUP_START] >> ELSE <<>>)
  \o (IF "end" \in parts
      THEN << [name |-> "}", type |-> GROUP_END] >> ELSE <<>>)
  \o (IF "line" \in parts
      THEN << [name |-> "Comment Line", type |-> COMMENT_LINE] >> ELSE <<>>)
  \o (IF "newline" \in parts
      THEN << [name |-> "NewLine", type |-> TERMINAL] >> ELSE <<>>)
  \o (IF "comment" \in parts
      THEN << [name |-> "Comment", type |-> SKIPPABLE] >> ELSE <<>>)

CommentTable(version, symbols) ==
  [version |-> version,
   charsets |-> [i \in 1..Len(symbols) |-> {"1"}],
   dfa_states |->
     << [result |-> undefined,
         edges |-> [i \in 1..Len(symbols) |-> DEdge(i - 1, i)]] >>
     \o [i \in 1..Len(symbols) |-> [result |-> Some(i - 1), edges |-> <<>>]],
   dfa_init_state |-> 0,
   lr_states |-> << [transitions |-> <<Tr(0, ACCEPT, 0)>>] >>,
   lr_init_state |-> 0, rules |-> <<>>, groups |-> <<>>,
   symbols |-> symbols]

CommentTables ==
  { CommentTable(v, CommentSymbols(parts)) :
      v \in {"v1", "v5"}, parts \in SUBSET CommentParts }

LinkInputs == TwinTables \cup DanglingTables \cup CommentTables

\* no grammar is linked yet and parse_string is not invoked
NoGrammar ==
  [dfa |-> 0, dfa_map |-> EmptyMap, lalr |-> 0, lr_map |-> EmptyMap,
   rules |-> <<>>]

ParserIdle ==
  /\ str = [p \in Procs |-> <<>>]
  /\ hooks = [p \in Procs |-> NoHooks]
  /\ pc = [p \in Procs |-> Idle.pc]
  /\ look_ahead = [p \in Procs |-> Idle.look_ahead]
  /\ current_pos = [p \in Procs |-> Idle.current_pos]
  /\ stack = [p \in Procs |-> Idle.stack]
  /\ tok = [p \in Procs |-> Idle.tok]
  /\ result = [p \in Procs |-> Idle.result]
  /\ thrown = [p \in Procs |-> Idle.thrown]
  /\ trace = [p \in Procs |-> Idle.trace]

parser_vars == <<str, hooks, pc, look_ahead, current_pos, stack, tok,
                 result, thrown, trace>>

InitLink ==
  \E c \in LinkInputs :
    /\ ParserIdle
    /\ grammar = NoGrammar
    /\ file = NoFile /\ cgt = c /\ lpc = "tables" /\ lret = NoCall
    /\ NoBuild

\* load_grammar_tables(cgt): the graph is returned, or an Error is raised
Link ==
  /\ lpc = "tables"
  /\ LET e == load_grammar_tables_throws(cgt)
     IN IF e # undefined
        THEN /\ lpc' = "link_failed"
             /\ lret' = [op |-> "load_grammar_tables", thrown |-> e,
                         value |-> undefined]
             /\ grammar' = grammar
        ELSE /\ lpc' = "linked"
             /\ lret' = [op |-> "load_grammar_tables", thrown |-> undefined,
                         value |-> undefined]
             /\ grammar' = load_grammar_tables(cgt)
  /\ UNCHANGED <<parser_vars, file, cgt, objects, state_map, calls>>

NextLink == Link

SpecLink == InitLink /\ [][NextLink]_vars

----------------------------------------------------------------------------
(* The reader on its own: a GTFileReader over the bytes of up to MaxFields *)
(* fields, whole or cut short, and any sequence of calls of its methods.   *)

\* one field of each tag, and a byte that is no tag
FieldBytes ==
  { << GrammarDataType_BOOLEAN, 1 >>,
    << EMPTY >>,
    << INT, 2, 0 >>,
    << GrammarDataType_STRING, 65, 0, 0, 0 >>,
    << BYTE, 83 >>,
    << MULTI, 2, 0 >>,
    << 88 >> }

RECURSIVE FieldData(_)
FieldData(n) ==
  IF n = 0 THEN { <<>> }
  ELSE FieldData(n - 1)
         \cup { d \o f : d \in FieldData(n - 1), f \in FieldBytes }

ReaderData ==
  UNION { { SubSeq(d, 1, k) : k \in 0..Len(d) } : d \in FieldData(MaxFields) }

InitReader ==
  \E d \in ReaderData :
    /\ ParserIdle
    /\ grammar = NoGrammar
    /\ file = [data |-> d, read_head |-> 0, remaining_records |-> 0]
    /\ cgt = NoTables /\ lpc = "reader" /\ lret = NoCall
    /\ NoBuild

\* a call of a method of the reader, r what the method gives
ReaderCall(op, r) ==
  /\ lpc = "reader"
  /\ file.read_head <= Len(file.data)
  /\ file' = r.file
  /\ lret' = [op |-> op, thrown |-> r.thrown, value |-> r.value,
              before |-> [read_head |-> file.read_head,
                          remaining_records |-> file.remaining_records]]
  /\ UNCHANGED <<grammar, parser_vars, cgt, lpc, objects, state_map, calls>>

ReadBool == ReaderCall("read_bool", read_bool(file))
ReadEmpty == ReaderCall("read_empty", read_empty(file))
ReadInt == ReaderCall("read_int", read_int(file))
ReadString == ReaderCall("read_string", read_string(file))
ReadByte == ReaderCall("read_byte", read_byte(file))
SkipField == ReaderCall("skip_field", skip_field(file))
StartRecord == ReaderCall("start_record", start_record(file))
RecordFinished == ReaderCall("record_finished", record_finished(file))

NextReader ==
  \/ ReadBool
  \/ ReadEmpty
  \/ ReadInt
  \/ ReadString
  \/ ReadByte
  \/ SkipField
  \/ StartRecord
  \/ RecordFinished

SpecReader == InitReader /\ [][NextReader]_vars

----------------------------------------------------------------------------
(* Loading: load_cgt over the bytes of a CGT file, a header and up to       *)
(* MaxRecords records.  Each record is sound, or declares a field count     *)
(* that is not the number of fields its parse function reads, or carries a  *)
(* type byte that is no record tag.                                         *)

MaxRecords == 2

Int16(n) == <<n % 256, n \div 256>>

RECURSIVE Concat(_)
Concat(ss) == IF ss = <<>> THEN <<>> ELSE Head(ss) \o Concat(Tail(ss))

RawString(s) == Concat([k \in 1..Len(s) |-> Int16(s[k])]) \o <<0, 0>>

FInt(n) == <<INT>> \o Int16(n)
FBool(b) == <<GrammarDataType_BOOLEAN, IF b THEN 1 ELSE 0>>
FEmpty == <<EMPTY>>
FByte(v) == <<BYTE, v>>
FString(s) == <<GrammarDataType_STRING>> \o RawString(s)

\* a record of the given type byte and body fields declaring n fields
Record(n, type, fields) ==
  <<MULTI>> \o Int16(n) \o FByte(type) \o Concat(fields)

\* the record declares the fields it holds, the type byte included
Sound(type, fields) == Record(Len(fields) + 1, type, fields)

SymbolFields(i) == <<FInt(i), FString(<<65 + i>>), FInt(1)>>
RuleFields == <<FInt(0), FInt(1), FEmpty, FInt(0)>>
RangeFields == <<FInt(0), FInt(0), FInt(1), FEmpty, FInt(48), FInt(57)>>

\* a type byte that is no GrammarRecordType
UnknownTag == 88

SoundRecords ==
  { Sound(SYMBOL, SymbolFields(0)),
    Sound(SYMBOL, SymbolFields(1)),
    Sound(CHARSET, <<FInt(0), FString(<<49>>)>>),
    Sound(DFASTATE, <<FInt(0), FBool(TRUE), FInt(0), FEmpty,
                      FInt(0), FInt(0), FEmpty>>),
    Sound(INITIALSTATES, <<FInt(0), FInt(0)>>),
    Sound(LRSTATE, <<FInt(0), FEmpty, FInt(0), FInt(ACCEPT), FInt(0), FEmpty>>),
    Sound(PARAMETER, <<FString(<<65>>), FString(<<49>>), FString(<<>>),
                       FString(<<>>), FBool(TRUE), FInt(12)>>),
    Sound(RULE, RuleFields),
    Sound(COUNTS, <<FInt(1), FInt(1)>>),
    Sound(COUNTS_V5, <<FInt(1)>>),
    Sound(CHARRANGES, RangeFields),
    Sound(GROUP, <<FInt(0), FString(<<65>>), FInt(0), FInt(0), FInt(0),
                   FInt(1), FInt(1), FEmpty, FInt(1), FInt(0)>>),
    Sound(PROPERTY, <<FInt(0), FString(<<65>>), FString(<<66>>)>>) }

MiscountedRecords ==
  { Record(5, SYMBOL, SymbolFields(0)),
    Record(3, SYMBOL, SymbolFields(0)),
    Record(2, SYMBOL, <<FInt(0), FString(<<65>>)>>),
    Record(6, RULE, RuleFields),
    Record(5, CHARRANGES, RangeFields) }

UnknownRecords ==
  { Sound(UnknownTag, <<>>),
    Sound(UnknownTag, <<FInt(0), FInt(0)>>) }

LoadRecords == SoundRecords \cup MiscountedRecords \cup UnknownRecords

RECURSIVE RecordData(_)
RecordData(n) ==
  IF n = 0 THEN { <<>> }
  ELSE RecordData(n - 1)
         \cup { d \o r : d \in RecordData(n - 1), r \in LoadRecords }

\* "GOLD Parser Tables/v1.0", ".../v5.0" and a header of no version
Headers ==
  { RawString(Magic \o <<118, 49, 46, 48>>),
    RawString(Magic \o <<118, 53, 46, 48>>),
    RawString(Magic \o <<118, 50, 46, 48>>) }

LoadData == { h \o d : h \in Headers, d \in RecordData(MaxRecords) }

InitLoad ==
  \E d \in LoadData :
    /\ ParserIdle
    /\ grammar = NoGrammar
    /\ file = [data |-> d, read_head |-> 0, remaining_records |-> 0]
    /\ cgt = NoTables /\ lpc = "header" /\ lret = NoCall
    /\ NoBuild

\* load_cgt went on by the step that gave r, or raised r.thrown
LoadStep(r) ==
  /\ file' = r.file
  /\ lret' = [op |-> "load_cgt", thrown |-> r.thrown, value |-> undefined,
              before |-> [read_head |-> file.read_head,
                          remaining_records |-> file.remaining_records]]
  /\ IF r.thrown # undefined
     THEN lpc' = "load_failed" /\ cgt' = cgt
     ELSE lpc' = "records" /\ cgt' = r.value
  /\ UNCHANGED <<grammar, parser_vars, objects, state_map, calls>>

\* load_cgt up to its loop
LoadHeader ==
  /\ lpc = "header"
  /\ \E r \in {load_cgt_header(file)} : LoadStep(r)

\* one turn of while (!file.eof())
LoadRecord ==
  /\ lpc = "records"
  /\ ~eof(file)
  /\ \E r \in {load_cgt_record(file, cgt)} : LoadStep(r)

\* return result
LoadReturn ==
  /\ lpc = "records"
  /\ eof(file)
  /\ lpc' = "loaded"
  /\ lret' = [op |-> "load_cgt", thrown |-> undefined, value |-> Some(cgt),
              before |-> [read_head |-> file.read_head,
                          remaining_records |-> file.remaining_records]]
  /\ UNCHANGED <<grammar, parser_vars, file, cgt, objects, state_map, calls>>

NextLoad ==
  \/ LoadHeader
  \/ LoadRecord
  \/ LoadReturn

SpecLoad == InitLoad /\ [][NextLoad]_vars

----------------------------------------------------------------------------
(* build_dfa and build_lr call by call.  A state object is named by the    *)
(* order of its creation (its place in objects), so that two objects made   *)
(* for one index are two objects; an edge, a Shift and a Goto hold the      *)
(* place of the object recursive_helper returned.  calls is the chain of    *)
(* recursive_helper calls, the innermost last: current is the argument,     *)
(* result the object the call made (undefined before it made one), k the    *)
(* place in parsed.edges or parsed.transitions the for loop stands at.      *)

\* most calls of recursive_helper inside one another
MaxCalls == 12

\* recursive_helper(current) is called
Call(current) == [current |-> current, result |-> undefined, k |-> 1]

\* the build went on to b, returned value or raised thrown
Built(b, value, e) == [build |-> b, value |-> value, thrown |-> e]

\* the innermost call raises: the Error passes through every caller
Raise(b, message) == Built(b, undefined, Some(message))

\* the innermost call goes on to the next turn of its for loop
NextTurn(b) == [b EXCEPT !.calls[Len(b.calls)].k = @ + 1]

\* the caller of the innermost call
Caller(b) == b.calls[Len(b.calls) - 1]

\* remember without the entry in the map
remember_no_map(b, object) ==
  LET made == Append(b.objects, object)
  IN [b EXCEPT !.objects = made,
               !.calls[Len(b.calls)].result = Some(Len(made))]

\* let result = {...}; dfa_map.set(current, result) (or lr_map.set) of the
\* innermost call, made before its for loop
remember(b, object) ==
  LET made == Append(b.objects, object)
  IN [b EXCEPT !.objects = made,
               !.state_map = MapSet(@, object.index, Len(made)),
               !.calls[Len(b.calls)].result = Some(Len(made))]

\* the top of recursive_helper of build_dfa, up to its for loop
build_dfa_enter(b, states, symbols) ==
  LET current == Last(b.calls).current
      parsed == At(states, current)
  IN IF current \in DOMAIN b.state_map
       THEN Built(b, Some(b.state_map[current]), undefined)
     ELSE IF parsed = undefined THEN Raise(b, "TypeError")
     ELSE Built(remember(b, [index |-> current,
                             result |->
                               IF parsed.result = undefined
                                  \/ At(symbols, parsed.result[1]) = undefined
                               THEN undefined
                               ELSE Some(At(symbols, parsed.result[1])),
                             edges |-> <<>>]),
                undefined, undefined)

\* recursive_helper of build_dfa returned ref to the call below it: the
\* value of build_dfa, or the target of the edge that call pushes
build_dfa_returned(b, ref, states, charsets) ==
  IF Len(b.calls) = 1
    THEN Built([b EXCEPT !.calls = <<>>], Some(ref), undefined)
  ELSE LET caller == Caller(b)
           edge == At(states, caller.current).edges[caller.k]
           below == [b EXCEPT !.calls = Front(@)]
       IN Built(NextTurn([below EXCEPT !.objects[caller.result[1]].edges =
                            Append(@, [label |-> At(charsets, edge.label),
                                       target |-> ref])]),
                undefined, undefined)

\* the top of recursive_helper of build_lr, up to its for loop
build_lr_enter(b, states) ==
  LET current == Last(b.calls).current
  IN IF current \in DOMAIN b.state_map
       THEN Built(b, Some(b.state_map[current]), undefined)
     ELSE IF At(states, current) = undefined THEN Raise(b, "TypeError")
     ELSE Built(remember(b, [index |-> current, edges |-> EmptyMap,
                             goto |-> EmptyMap]),
                undefined, undefined)

\* the end of one turn of the for loop of build_lr, from
\* let look_ahead = symbols[transition.look_ahead_symbol] on
build_lr_set(b, transition, edge, symbols) ==
  LET la_symbol == At(symbols, transition.look_ahead_symbol)
      at == Last(b.calls).result[1]
  IN IF la_symbol = undefined THEN Raise(b, "TypeError")
     ELSE Built(NextTurn(
                  IF edge.type = GOTO
                  THEN [b EXCEPT !.objects[at].goto =
                                    MapSet(@, la_symbol.name, edge)]
                  ELSE [b EXCEPT !.objects[at].edges =
                                    MapSet(@, la_symbol.name, edge)]),
                undefined, undefined)

\* recursive_helper of build_lr returned ref to the call below it: the
\* value of build_lr, or the target of the Shift or Goto that call sets
build_lr_returned(b, ref, states, symbols) ==
  IF Len(b.calls) = 1
    THEN Built([b EXCEPT !.calls = <<>>], Some(ref), undefined)
  ELSE LET caller == Caller(b)
           transition == At(states, caller.current).transitions[caller.k]
       IN build_lr_set([b EXCEPT !.calls = Front(@)], transition,
                       [type |-> transition.action_type, target |-> ref],
                       symbols)

\* one turn of the for loop of build_lr that calls nothing: Accept, Reduce,
\* or an action type that is none of the four
build_lr_turn(b, transition, rules, symbols) ==
  CASE transition.action_type = ACCEPT ->
         build_lr_set(b, transition, Accept, symbols)
    [] transition.action_type = REDUCE ->
         build_lr_set(b, transition, lr_edge(transition, rules), symbols)
    [] OTHER -> Raise(b, "Action type not supported")

\* The tables build_dfa and build_lr are called on: every table of three
\* states whose states each hold one of the lists below, from either of two
\* initial indices.  The lists make chains, diamonds, self-loops and longer
\* cycles, states no path reaches, two entries under one look-ahead, and
\* what load_cgt lets through as well: a target beyond the table, an action
\* type that is none of the four, a look-ahead symbol beyond the table.

EdgeLists ==
  { <<>>, <<DEdge(0, 0)>>, <<DEdge(0, 1)>>, <<DEdge(1, 2)>>,
    <<DEdge(0, 1), DEdge(1, 1)>>, <<DEdge(0, 2), DEdge(1, 0)>>,
    <<DEdge(0, NoEntry)>> }

TransitionLists ==
  { <<>>, <<Tr(3, SHIFT, 0)>>, <<Tr(3, SHIFT, 1)>>, <<Tr(5, GOTO, 2)>>,
    <<Tr(3, SHIFT, 1), Tr(5, GOTO, 1)>>,
    <<Tr(3, SHIFT, 1), Tr(3, SHIFT, 2)>>,
    <<Tr(4, SHIFT, 2), Tr(0, ACCEPT, 0), Tr(3, REDUCE, 1), Tr(5, GOTO, 0)>>,
    <<Tr(3, SHIFT, NoEntry)>>,
    <<Tr(3, NoEntry, 0)>>,
    <<Tr(NoEntry, REDUCE, 0)>> }

DFATables ==
  { <<[result |-> undefined, edges |-> e[1]],
      [result |-> Some(3), edges |-> e[2]],
      [result |-> Some(4), edges |-> e[3]]>> :
      e \in [1..3 -> EdgeLists] }

LRTables ==
  { [i \in 1..3 |-> [transitions |-> t[i]]] : t \in [1..3 -> TransitionLists] }

\* the tables of the fixture grammar among them
BuildInputs(f) ==
  {BaseTables} \cup
  IF f = "build_dfa"
  THEN { [BaseTables EXCEPT !.dfa_states = s, !.dfa_init_state = i] :
           s \in DFATables, i \in {0, 1} }
  ELSE { [BaseTables EXCEPT !.lr_states = s, !.lr_init_state = i] :
           s \in LRTables, i \in {0, 1} }

\* the symbols and rules load_grammar_tables hands to build_dfa, build_lr
LinkedSymbols ==
  build_groups(cgt.groups, build_symbols(cgt.symbols), cgt.version = "v1")
LinkedRules == build_rules(cgt.rules, LinkedSymbols)

Build == [objects |-> objects, state_map |-> state_map, calls |-> calls]

\* build_dfa(cgt.dfa_init_state, ...) or build_lr(cgt.lr_init_state, ...)
\* is called: let dfa_map = new Map(); return recursive_helper(initial)
InitBuild ==
  \E f \in {"build_dfa", "build_lr"} : \E c \in BuildInputs(f) :
    /\ ParserIdle
    /\ grammar = NoGrammar
    /\ file = NoFile /\ cgt = c /\ lpc = f /\ lret = NoCall
    /\ objects = <<>> /\ state_map = EmptyMap
    /\ calls = << Call(IF f = "build_dfa" THEN c.dfa_init_state
                       ELSE c.lr_init_state) >>

\* the build went on by the step that gave r
BuildStep(r) ==
  /\ objects' = r.build.objects
  /\ state_map' = r.build.state_map
  /\ calls' = r.build.calls
  /\ IF r.thrown # undefined
       THEN /\ lpc' = "build_failed"
            /\ lret' = [op |-> lpc, thrown |-> r.thrown, value |-> undefined]
     ELSE IF r.build.calls = <<>>
       THEN /\ lpc' = "built"
            /\ lret' = [op |-> lpc, thrown |-> undefined, value |-> r.value]
     ELSE UNCHANGED <<lpc, lret>>
  /\ UNCHANGED <<grammar, parser_vars, file, cgt>>

\* recursive_helper of build_dfa is entered: it returns the object the map
\* holds, or makes one, or raises
BuildDfaEnter ==
  /\ lpc = "build_dfa"
  /\ Last(calls).result = undefined
  /\ \E r \in {build_dfa_enter(Build, cgt.dfa_states, LinkedSymbols)} :
       IF r.thrown = undefined /\ r.value # undefined
       THEN BuildStep(build_dfa_returned(r.build, r.value[1],
                                         cgt.dfa_states, cgt.charsets))
       ELSE BuildStep(r)

\* for (const edge of parsed.edges): recursive_helper(edge.target) is called
BuildDfaEdge ==
  /\ lpc = "build_dfa"
  /\ Last(calls).result # undefined
  /\ Last(calls).k <= Len(At(cgt.dfa_states, Last(calls).current).edges)
  /\ Len(calls) < MaxCalls
  /\ calls' = Append(calls,
       Call(At(cgt.dfa_states, Last(calls).current).edges[Last(calls).k].target))
  /\ UNCHANGED <<grammar, parser_vars, file, cgt, lpc, lret, objects,
                 state_map>>

\* return result, after the last edge
BuildDfaReturn ==
  /\ lpc = "build_dfa"
  /\ Last(calls).result # undefined
  /\ Last(calls).k > Len(At(cgt.dfa_states, Last(calls).current).edges)
  /\ BuildStep(build_dfa_returned(Build, Last(calls).result[1],
                                  cgt.dfa_states, cgt.charsets))

\* recursive_helper of build_lr is entered
BuildLrEnter ==
  /\ lpc = "build_lr"
  /\ Last(calls).result = undefined
  /\ \E r \in {build_lr_enter(Build, cgt.lr_states)} :
       IF r.thrown = undefined /\ r.value # undefined
       THEN BuildStep(build_lr_returned(r.build, r.value[1], cgt.lr_states,
                                        LinkedSymbols))
       ELSE BuildStep(r)

\* for (const transition of parsed.transitions): a Shift or a Goto calls
\* recursive_helper(transition.value), any other entry is dealt with at once
BuildLrTransition ==
  /\ lpc = "build_lr"
  /\ Last(calls).result # undefined
  /\ Last(calls).k <= Len(At(cgt.lr_states, Last(calls).current).transitions)
  /\ \E t \in {At(cgt.lr_states, Last(calls).current).transitions[Last(calls).k]} :
       IF t.action_type \in {GOTO, SHIFT}
       THEN /\ Len(calls) < MaxCalls
            /\ calls' = Append(calls, Call(t.value))
            /\ UNCHANGED <<grammar, parser_vars, file, cgt, lpc, lret,
                           objects, state_map>>
       ELSE BuildStep(build_lr_turn(Build, t, LinkedRules, LinkedSymbols))

\* return result, after the last transition
BuildLrReturn ==
  /\ lpc = "build_lr"
  /\ Last(calls).result # undefined
  /\ Last(calls).k > Len(At(cgt.lr_states, Last(calls).current).transitions)
  /\ BuildStep(build_lr_returned(Build, Last(calls).result[1], cgt.lr_states,
                                 LinkedSymbols))

NextBuild ==
  \/ BuildDfaEnter
  \/ BuildDfaEdge
  \/ BuildDfaReturn
  \/ BuildLrEnter
  \/ BuildLrTransition
  \/ BuildLrReturn

SpecBuild == InitBuild /\ [][NextBuild]_vars

----------------------------------------------------------------------------
(* Properties.  Running(p): invocation p was made.                          *)

Running(p) == pc[p] # "idle"
Returned(p) == pc[p] = "returned"
IsLeaf(n) == "token" \in DOMAIN n.children
IsTree(r) == parse_successful(r)

RECURSIVE SpansOK(_, _)
\* the spans of node n and of every node below it, `before` being the end
\* of what lay directly below n when it was built: the frame under it, or
\* inside a parent the sibling to its left
SpansOK(n, before) ==
  IF IsLeaf(n) THEN n.end - n.start = Len(n.children.token.value)
  ELSE LET kids == n.children.nodes
       IN IF kids = <<>> THEN n.start = before /\ n.end = before
          ELSE /\ n.start = kids[1].start
               /\ n.end = Last(kids).end
               /\ \A k \in 1..Len(kids) :
                    SpansOK(kids[k],
                            IF k = 1 THEN before ELSE kids[k - 1].end)

\* C1: every parse tree node on the stack or returned spans its children
\* (start of the first, end of the last, also at offset 0), a leaf spans
\* its token's value, and an epsilon node sits at the end of the frame that
\* was on top after the pops.
C1_SpanIntegrity ==
  \A p \in Procs :
    /\ \A i \in 2..Len(stack[p]) :
         SpansOK(stack[p][i].parse_tree, stack[p][i - 1].parse_tree.end)
    /\ (Returned(p) /\ IsTree(result[p][1]) /\ stack[p] # <<>>) =>
         SpansOK(result[p][1], Last(stack[p]).parse_tree.end)

\* a returned tree whose root starts at offset 0 with an epsilon node as
\* its first child and ends in an epsilon node at an offset above 0
C1_Witness ==
  \E p \in Procs :
    /\ Returned(p) /\ IsTree(result[p][1])
    /\ ~IsLeaf(result[p][1])
    /\ LET kids == result[p][1].children.nodes
       IN /\ Len(kids) = 3
          /\ ~IsLeaf(kids[1]) /\ kids[1].children.nodes = <<>>
          /\ kids[1].start = 0
          /\ ~IsLeaf(kids[3]) /\ kids[3].children.nodes = <<>>
          /\ kids[3].start > 0

\* invocation p stands at the head of the loop with a look-ahead: its next
\* step is a call of lalr_step
AtStep(p) == pc[p] = "loop" /\ look_ahead[p] # undefined

\* what the edges of the state on top hold for the look-ahead
Pending(p) ==
  MapGet(grammar.lr_map[Last(stack[p]).current_state].edges,
         look_ahead[p][1].symbol.name)

\* C3: a parse tree is returned only by a step that finds Accept for the
\* look-ahead in the state of the top frame, and it is that frame's tree.
C3_TreeOnlyOnAccept ==
  [][\A p \in Procs :
       (result[p] = undefined /\ result'[p] # undefined
          /\ IsTree(result'[p][1])) =>
         /\ AtStep(p)
         /\ Pending(p) = Some(Accept)
         /\ result'[p][1] = Last(stack[p]).parse_tree]_vars

\* a tree was returned by an Accept step, from above the sentinel frame
C3_Witness ==
  \E p \in Procs :
    /\ Returned(p) /\ IsTree(result[p][1])
    /\ Last(trace[p]).ev = "step" /\ Last(trace[p]).step = "ACCEPT"
    /\ result[p][1].symbol.name = "<E>"

\* C4: when the input is exhausted and the state on top has no action for
\* the end-of-input look-ahead, the parser error returned carries the
\* sentinel string "(EOF)" as last_token, and the current stack.
C4_EofSentinel ==
  \A p \in Procs :
    (/\ Returned(p) /\ is_parser_error(result[p][1])
     /\ look_ahead[p] # undefined
     /\ look_ahead[p][1].symbol.type = EOF
     /\ current_pos[p] >= Len(str[p])) =>
      /\ result[p][1].last_token = EOF_SENTINEL
      /\ result[p][1].stack = stack[p]

\* C5: Accept is taken only in a step whose look-ahead is of kind Eof.
C5_AcceptOnlyOnEof ==
  \A p \in Procs :
    \A k \in 1..Len(trace[p]) :
      (trace[p][k].ev = "step" /\ trace[p][k].step = "ACCEPT") =>
        trace[p][k].look_ahead.symbol.type = EOF

\* the step of p is a reduce by its Pending rule that leaves a frame exposed
ReduceOver(p) ==
  /\ AtStep(p)
  /\ Pending(p) # undefined
  /\ Pending(p)[1].type = REDUCE
  /\ Len(stack[p]) > Len(Pending(p)[1].target.consumes)

\* the frame the pops of that reduce expose, and its goto entry for the
\* symbol the rule produces
Exposed(p) == stack[p][Len(stack[p]) - Len(Pending(p)[1].target.consumes)]
GotoEntry(p) ==
  MapGet(grammar.lr_map[Exposed(p).current_state].goto,
         Pending(p)[1].target.produces.name)

\* invocation p took a step in this transition
Stepped(p) == trace'[p] # trace[p] \/ pc'[p] # pc[p]

\* C6: after a successful reduce by rule r the frame below the pushed one
\* is the frame the pops exposed, its state has a goto entry for
\* r.produces.name and that entry's target is the state of the pushed
\* frame; without such an entry the reduce raises GOTO not found and
\* pushes nothing.
C6_ReduceGotoDuality ==
  [][\A p \in Procs :
       (ReduceOver(p) /\ Stepped(p)) =>
         LET n == Len(Pending(p)[1].target.consumes)
             rest == SubSeq(stack[p], 1, Len(stack[p]) - n)
         IN IF GotoEntry(p) = undefined
            THEN /\ pc'[p] = "thrown"
                 /\ thrown'[p] = Some("GOTO not found for Symbol")
                 /\ stack'[p] = rest
            ELSE /\ pc'[p] \in {"loop", "on_reduce"}
                 /\ Front(stack'[p]) = rest
                 /\ GotoEntry(p)[1].type = GOTO
                 /\ Last(stack'[p]).current_state = GotoEntry(p)[1].target
                 /\ Last(stack'[p]).parse_tree.symbol =
                      Pending(p)[1].target.produces]_vars

\* a reduce of two or more frames was made, and its hook is being awaited
C6_Witness ==
  \E p \in Procs :
    /\ pc[p] = "on_reduce"
    /\ Len(Last(stack[p]).parse_tree.children.nodes) >= 2
    /\ Last(stack[p]).current_state # stack[p][Len(stack[p]) - 1].current_state

\* the GOTO not found fatal was raised
C6_WitnessFatal ==
  \E p \in Procs : thrown[p] = Some("GOTO not found for Symbol")

\* C7: when the state on top has no edges entry for the look-ahead, the
\* step returns a parser error with that look-ahead as last_token and the
\* stack as it was, pushing and popping nothing; and an invocation that
\* has returned or raised takes no further step: no token is lexed, no LR
\* step is taken and no hook is called.
C7_NoEntryHalts ==
  [][\A p \in Procs :
       /\ (AtStep(p) /\ Pending(p) = undefined /\ Stepped(p)) =>
            /\ pc'[p] = "returned"
            /\ result'[p] =
                 Some([last_token |-> look_ahead[p][1], stack |-> stack[p]])
            /\ stack'[p] = stack[p]
            /\ current_pos'[p] = current_pos[p]
            /\ Len(trace'[p]) = Len(trace[p]) + 1
            /\ Last(trace'[p]).ev = "step"
       /\ pc[p] \in {"returned", "thrown"} =>
            /\ pc'[p] = pc[p] /\ result'[p] = result[p]
            /\ stack'[p] = stack[p] /\ trace'[p] = trace[p]
            /\ current_pos'[p] = current_pos[p]
            /\ look_ahead'[p] = look_ahead[p]]_vars

\* a parser error was returned for a look-ahead that is a token of the
\* input, above a stack of three frames or more
C7_Witness ==
  \E p \in Procs :
    /\ Returned(p) /\ is_parser_error(result[p][1])
    /\ look_ahead[p] # undefined
    /\ look_ahead[p][1].symbol.type = TERMINAL
    /\ result[p][1].last_token = look_ahead[p][1]
    /\ Len(result[p][1].stack) >= 3

\* C8: the only failures raised are State mismatch and GOTO not found,
\* both by a reduce; a lexical failure, an unterminated group and a missing
\* LR action are returned, and no other step (shift, accept, token fetch)
\* raises.
C8_OnlyTwoFatals ==
  \A p \in Procs :
    pc[p] = "thrown" =>
      /\ thrown[p][1] \in {"State mismatch", "GOTO not found for Symbol"}
      /\ Last(trace[p]).ev = "step"
      /\ Last(trace[p]).transition # undefined
      /\ Last(trace[p]).transition[1].type = REDUCE

\* the kinds of result by how parse_string builds them
IsGroupError(r) == "groups" \in DOMAIN r
IsLexerError(r) == DOMAIN r = {"position"}
IsParserError(r) == DOMAIN r = {"last_token", "stack"}

\* C9: the discriminators classify every returned result as exactly one
\* kind: parse_successful only trees, is_parser_error only parser errors,
\* is_lexer_error only lexer errors (position only), so a group error is
\* never classified as a lexer error and no result satisfies two of them.
C9_Discriminators ==
  \A p \in Procs :
    Returned(p) =>
      LET r == result[p][1]
      IN /\ parse_successful(r) =>
              DOMAIN r = {"symbol", "children", "start", "end"}
         /\ is_parser_error(r) => IsParserError(r)
         /\ is_lexer_error(r) => IsLexerError(r)
         /\ IsGroupError(r) => ~is_lexer_error(r)
         /\ ~(parse_successful(r) /\ is_parser_error(r))
         /\ ~(parse_successful(r) /\ is_lexer_error(r))
         /\ ~(is_parser_error(r) /\ is_lexer_error(r))

\* invocation p stands at the head of the loop without a look-ahead: its
\* next step fetches a token
AtLex(p) ==
  pc[p] = "loop" /\ look_ahead[p] = undefined /\ current_pos[p] <= Len(str[p])

\* what that fetch returns is a token
Fetched(p) == next_token(grammar, str[p], current_pos[p])
FetchesToken(p) == Fetched(p) # undefined /\ "groups" \notin DOMAIN Fetched(p)[1]

\* the entries the step of p adds to its history
Added(p) == SubSeq(trace'[p], Len(trace[p]) + 1, Len(trace'[p]))

\* the one hook call the step of p makes, with the arguments it must carry
CallsHook(p, hook) ==
  /\ Len(Added(p)) = 2
  /\ Added(p)[1].ev = "step"
  /\ Added(p)[2] = [ev |-> hook,
                    origin_state |-> Last(stack[p]).current_state,
                    look_ahead |-> look_ahead[p][1],
                    stack |-> stack'[p]]
  /\ pc'[p] = hook
  /\ look_ahead'[p] = look_ahead[p]

\* the step of p makes no hook call
CallsNone(p) == Len(Added(p)) = 1 /\ Added(p)[1].ev = "step"

\* C10: on_token is called once for every token fetched, before the token
\* becomes the look-ahead; on_shift once per completed shift, with the leaf
\* frame pushed, the token still the look-ahead and origin_state the state
\* on top before the shift; on_reduce once per completed reduce, with the
\* stack already modified and origin_state the state on top before the
\* reduce; an Accept, a parser error and a raised failure call no hook, and
\* a hook that is not given is not called.
C10_HookPoints ==
  [][\A p \in Procs :
       /\ (AtLex(p) /\ Stepped(p)) =>
            IF FetchesToken(p)
            THEN LET t == Fetched(p)[1]
                 IN IF hooks[p].on_token
                    THEN /\ Added(p) = <<[ev |-> "lex", token |-> t],
                                         [ev |-> "on_token", token |-> t]>>
                         /\ pc'[p] = "on_token"
                         /\ look_ahead'[p] = undefined
                         /\ stack'[p] = stack[p]
                    ELSE Added(p) = <<[ev |-> "lex", token |-> t]>>
            ELSE Added(p) = <<>>
       /\ (AtStep(p) /\ Stepped(p)) =>
            IF pc'[p] \in {"returned", "thrown"} \/ Pending(p) = undefined
              THEN CallsNone(p)
            ELSE IF Pending(p)[1].type = SHIFT
              THEN /\ Front(stack'[p]) = stack[p]
                   /\ Last(stack'[p]).parse_tree.children =
                        [token |-> look_ahead[p][1]]
                   /\ IF hooks[p].on_shift THEN CallsHook(p, "on_shift")
                                           ELSE CallsNone(p)
            ELSE IF Pending(p)[1].type = REDUCE
              THEN /\ stack'[p] # stack[p]
                   /\ IF hooks[p].on_reduce THEN CallsHook(p, "on_reduce")
                                            ELSE CallsNone(p)
            ELSE FALSE
       /\ pc[p] \in {"on_token", "on_shift", "on_reduce"} =>
            /\ Last(trace[p]).ev = pc[p]
            /\ trace'[p] = trace[p]
            /\ stack'[p] = stack[p]
       /\ pc[p] = "on_token" =>
            /\ look_ahead[p] = undefined
            /\ tok[p] = Some(Last(trace[p]).token)
       /\ pc[p] = "on_shift" =>
            /\ look_ahead[p] = Some(Last(trace[p]).look_ahead)
            /\ Last(stack[p]).parse_tree.children =
                 [token |-> look_ahead[p][1]]]_vars

\* on_shift is awaited in a run that called on_token for a skippable token
\* and on_reduce before it
C10_Witness ==
  \E p \in Procs :
    /\ pc[p] = "on_shift"
    /\ Last(trace[p]).origin_state # Last(stack[p]).current_state
    /\ \E k \in 1..Len(trace[p]) :
         trace[p][k].ev = "on_token"
           /\ trace[p][k].token.symbol.type = SKIPPABLE
    /\ \E k \in 1..Len(trace[p]) : trace[p][k].ev = "on_reduce"

Done(p) == pc[p] \in {"returned", "thrown"}

\* the decisions of a run: its steps, with the state they were taken in,
\* the look-ahead without its offset and the table entry found
IsStepEvent(e) == e.ev = "step"
Decisions(p) ==
  LET steps == SelectSeq(trace[p], IsStepEvent)
  IN [k \in 1..Len(steps) |->
        [step |-> steps[k].step,
         look_ahead |-> NoPos(steps[k].look_ahead),
         origin_state |-> steps[k].origin_state,
         transition |-> steps[k].transition]]

IsPrefix(s, t) == Len(s) <= Len(t) /\ SubSeq(t, 1, Len(s)) = s

\* a parse node without its offsets
RECURSIVE Shape(_)
Shape(n) ==
  [symbol |-> n.symbol,
   children |->
     IF IsLeaf(n) THEN [token |-> NoPos(n.children.token)]
     ELSE [nodes |-> [k \in 1..Len(n.children.nodes) |->
                        Shape(n.children.nodes[k])]]]

ShapeStack(stk) ==
  [k \in 1..Len(stk) |-> [current_state |-> stk[k].current_state,
                          parse_tree |-> Shape(stk[k].parse_tree)]]

\* what a finished invocation gave, offsets left out
Outcome(p) ==
  IF pc[p] = "thrown" THEN [thrown |-> thrown[p][1]]
  ELSE LET r == result[p][1]
       IN IF parse_successful(r) THEN [tree |-> Shape(r)]
          ELSE IF is_parser_error(r)
            THEN [last_token |-> NoPos(r.last_token),
                  stack |-> ShapeStack(r.stack)]
          ELSE IF "groups" \in DOMAIN r THEN [groups |-> r.groups]
          ELSE [lexer_error |-> TRUE]

\* C2: two invocations over the same tables whose token streams differ only
\* by skippable tokens take the same decisions in the same order (at any
\* moment the decisions of one are a prefix of the other's) and, once both
\* have ended, have taken the same decisions and give the same outcome, the
\* trees alike in shape, symbols and leaf values.
C2_SkippableNeutrality ==
  (Running(1) /\ Running(2) /\ SameStream(grammar, str[1], str[2])) =>
    /\ IsPrefix(Decisions(1), Decisions(2))
         \/ IsPrefix(Decisions(2), Decisions(1))
    /\ (Done(1) /\ Done(2)) =>
         /\ Decisions(1) = Decisions(2)
         /\ Outcome(1) = Outcome(2)

\* both invocations returned a tree of three children, the second from an
\* input with a skippable token before the last significant one, so that
\* the trees differ in their offsets
C2_Witness ==
  /\ Done(1) /\ Done(2)
  /\ SameStream(grammar, str[1], str[2])
  /\ result[1] # undefined /\ result[2] # undefined
  /\ IsTree(result[1][1]) /\ IsTree(result[2][1])
  /\ Len(result[1][1].children.nodes) = 3
  /\ result[1][1].end < result[2][1].end
  /\ result[1][1] # result[2][1]
  /\ \E k \in 1..Len(trace[2]) :
       trace[2][k].ev = "on_token" /\ IsSkippable(trace[2][k].token)

\* the calls of on_reduce made so far by invocation p
IsReduceEvent(e) == e.ev = "on_reduce"
ReduceCalls(p) == SelectSeq(trace[p], IsReduceEvent)

\* C11: each call of on_reduce receives a look-ahead whose position is not
\* below that of any earlier call, and a stack whose top frame is the frame
\* the reduce pushed: its state is the goto target found under the exposed
\* frame, and its node is of the symbol the rule produces.
C11_ReduceCallOrder ==
  [][\A p \in Procs :
       (AtStep(p) /\ pc'[p] = "on_reduce") =>
         LET call == Last(trace'[p])
         IN /\ ReduceOver(p) /\ GotoEntry(p) # undefined
            /\ ReduceCalls(p) \o << call >> =
                 SelectSeq(trace'[p], IsReduceEvent)
            /\ \A k \in 1..Len(ReduceCalls(p)) :
                 ReduceCalls(p)[k].look_ahead.position
                   <= call.look_ahead.position
            /\ call.look_ahead = look_ahead[p][1]
            /\ Len(call.stack) =
                 Len(stack[p]) - Len(Pending(p)[1].target.consumes) + 1
            /\ Last(call.stack) = Last(stack'[p])
            /\ Last(call.stack).current_state = GotoEntry(p)[1].target
            /\ Last(call.stack).parse_tree.symbol =
                 Pending(p)[1].target.produces]_vars

\* on_reduce is awaited for the third time or later, after calls at two
\* different positions and two calls at one position, the state on top
\* differing from the origin state passed
C11_Witness ==
  \E p \in Procs :
    /\ pc[p] = "on_reduce"
    /\ Len(ReduceCalls(p)) >= 3
    /\ \E j, k \in 1..Len(ReduceCalls(p)) :
         /\ j < k
         /\ ReduceCalls(p)[j].look_ahead.position
              < ReduceCalls(p)[k].look_ahead.position
    /\ \E j, k \in 1..Len(ReduceCalls(p)) :
         /\ j < k
         /\ ReduceCalls(p)[j].look_ahead.position
              = ReduceCalls(p)[k].look_ahead.position
    /\ Last(Last(trace[p]).stack).current_state
         # Last(trace[p]).origin_state

\* the locals of invocation p are left as they are
Untouched(p) ==
  /\ pc'[p] = pc[p] /\ look_ahead'[p] = look_ahead[p]
  /\ current_pos'[p] = current_pos[p] /\ stack'[p] = stack[p]
  /\ tok'[p] = tok[p] /\ result'[p] = result[p]
  /\ thrown'[p] = thrown[p] /\ trace'[p] = trace[p]

\* C12: a step of one invocation leaves the grammar, the inputs and every
\* local of the other invocation as they are, and an invocation that ends
\* while interleaved with another ends with the result, the failure, the
\* stack and the history it has when run alone.
C12_SharedGrammar ==
  [][\A p \in Procs :
       Stepped(p) =>
         /\ grammar' = grammar /\ str' = str /\ hooks' = hooks
         /\ \A q \in Procs \ {p} : Untouched(q)
         /\ pc'[p] \in {"returned", "thrown"} =>
              LET alone == parse_string(grammar, str[p], hooks[p])
              IN /\ pc'[p] = alone.pc
                 /\ result'[p] = alone.result
                 /\ thrown'[p] = alone.thrown
                 /\ stack'[p] = alone.stack
                 /\ trace'[p] = alone.trace]_vars

\* the first invocation returned a tree while the second, of another input
\* and with its own deeper stack, is suspended in on_reduce or on_shift
C12_Witness ==
  /\ Returned(1) /\ IsTree(result[1][1])
  /\ pc[2] \in {"on_reduce", "on_shift"}
  /\ str[1] # str[2]
  /\ Len(trace[2]) >= 6
  /\ Len(stack[2]) > Len(stack[1])

\* the symbols of the tables as the linker names them
Mangled == build_symbols(cgt.symbols)

Linked == lpc = "linked" /\ lret.op = "load_grammar_tables"

\* C13: two symbols of one raw name and different kinds, of any of the
\* eight kinds, get different mangled names, so that an LR state holds one
\* entry for each symbol its transitions name.
C13_MangleUnique ==
  Linked =>
    /\ \A i, j \in 1..Len(cgt.symbols) :
         (cgt.symbols[i].name = cgt.symbols[j].name
            /\ cgt.symbols[i].type # cgt.symbols[j].type) =>
           Mangled[i].name # Mangled[j].name
    /\ \A n \in DOMAIN grammar.lr_map :
         Cardinality(DOMAIN grammar.lr_map[n].edges)
           + Cardinality(DOMAIN grammar.lr_map[n].goto)
           = Cardinality({ At(cgt.lr_states, n).transitions[k].look_ahead_symbol :
                             k \in 1..Len(At(cgt.lr_states, n).transitions) })

TypedReads ==
  {"read_bool", "read_empty", "read_int", "read_string", "read_byte"}

\* the tag a typed read asks for, and the typed read applied to a reader
TagOf(op) ==
  CASE op = "read_bool" -> GrammarDataType_BOOLEAN
    [] op = "read_empty" -> EMPTY
    [] op = "read_int" -> INT
    [] op = "read_string" -> GrammarDataType_STRING
    [] op = "read_byte" -> BYTE

TypedRead(op, f) ==
  CASE op = "read_bool" -> read_bool(f)
    [] op = "read_empty" -> read_empty(f)
    [] op = "read_int" -> read_int(f)
    [] op = "read_string" -> read_string(f)
    [] op = "read_byte" -> read_byte(f)

\* the reader has a next byte, its tag
HasTag(f) == InRange8(f, f.read_head)
Tag(f) == readUInt8(f, f.read_head)

\* C15: a typed read whose next tag is not the one it asks for raises
\* Unexpected data type and leaves the read head and the field counter as
\* they were, so that the typed read of the tag that is there reads that
\* same field: it does not raise Unexpected data type and, when it
\* returns, has counted one field and moved the read head forward.
C15_TypedReadRewinds ==
  [][(/\ lpc = "reader"
      /\ lret'.op \in TypedReads
      /\ file.read_head <= Len(file.data)
      /\ HasTag(file) /\ Tag(file) # TagOf(lret'.op)) =>
       /\ lret'.thrown = Some("Unexpected data type")
       /\ file' = file
       /\ \A op \in TypedReads :
            TagOf(op) = Tag(file) =>
              LET again == TypedRead(op, file')
              IN /\ again.thrown # Some("Unexpected data type")
                 /\ again.thrown = undefined =>
                      /\ again.file.remaining_records
                           = file.remaining_records - 1
                      /\ again.file.read_head > file.read_head]_vars

\* read_int was refused on a string field that is not the first field, the
\* reader is as it was before the call, and read_string then reads it
C15_Witness ==
  /\ lpc = "reader"
  /\ lret.op = "read_int" /\ lret.thrown = Some("Unexpected data type")
  /\ file.read_head > 0
  /\ file.read_head = lret.before.read_head
  /\ file.remaining_records = lret.before.remaining_records
  /\ Tag(file) = GrammarDataType_STRING
  /\ read_string(file).thrown = undefined

\* the reader as it was before the last call
Before == [file EXCEPT !.read_head = lret.before.read_head,
                       !.remaining_records = lret.before.remaining_records]

\* the bytes of the payload that follows a tag
PayloadOf(f) ==
  CASE Tag(f) = EMPTY -> 0
    [] Tag(f) \in {GrammarDataType_BOOLEAN, BYTE} -> 1
    [] Tag(f) \in {INT, MULTI} -> 2
    [] Tag(f) = GrammarDataType_STRING ->
         read_raw_string([f EXCEPT !.read_head = @ + 1]).file.read_head
           - (f.read_head + 1)

\* C16: skip_field on a whole field of any of the six tags returns, having
\* counted one field and moved the read head over the tag and the payload
\* of that field; for the five typed tags the reader is then as the typed
\* read would leave it.
C16_SkipAnyField ==
  (/\ lpc = "reader" /\ lret.op = "skip_field"
   /\ HasTag(Before)
   /\ Tag(Before) \in {GrammarDataType_BOOLEAN, EMPTY, INT,
                       GrammarDataType_STRING, BYTE, MULTI}
   /\ Tag(Before) = GrammarDataType_STRING =>
        read_raw_string([Before EXCEPT !.read_head = @ + 1]).thrown = undefined
   /\ Before.read_head + 1 + PayloadOf(Before) <= Len(file.data)) =>
     /\ lret.thrown = undefined
     /\ file.remaining_records = Before.remaining_records - 1
     /\ file.read_head = Before.read_head + 1 + PayloadOf(Before)
     /\ \A op \in TypedReads :
          TagOf(op) = Tag(Before) => TypedRead(op, Before).file = file

----------------------------------------------------------------------------
(* Records of a CGT file, read off the bytes and not off the reader's      *)
(* counter.                                                                 *)

\* the bytes one field at offset pos of d takes, 0 when no field is there
FieldWidth(d, pos) ==
  IF pos < 0 \/ pos >= Len(d) THEN 0
  ELSE CASE d[pos + 1] = EMPTY -> 1
         [] d[pos + 1] \in {GrammarDataType_BOOLEAN, BYTE} ->
              IF pos + 2 <= Len(d) THEN 2 ELSE 0
         [] d[pos + 1] = INT -> IF pos + 3 <= Len(d) THEN 3 ELSE 0
         [] d[pos + 1] = GrammarDataType_STRING ->
              LET zeros == { i \in (pos + 1)..(Len(d) - 2) :
                               /\ (i - pos - 1) % 2 = 0
                               /\ d[i + 1] = 0 /\ d[i + 2] = 0 }
              IN IF zeros = {} THEN 0 ELSE MinOf(zeros) + 2 - pos
         [] OTHER -> 0

\* the offset after n whole fields from offset pos of d, -1 when the bytes
\* there are not n fields
RECURSIVE FieldsEnd(_, _, _)
FieldsEnd(d, pos, n) ==
  IF n = 0 THEN pos
  ELSE CHOOSE e \in { IF w = 0 THEN -1 ELSE FieldsEnd(d, pos + w, n - 1) :
                        w \in {FieldWidth(d, pos)} } : TRUE

\* the number of whole fields between the offsets pos and to of d, -1
\* when to is not the end of a field
RECURSIVE FieldsBetween(_, _, _)
FieldsBetween(d, pos, to) ==
  IF pos = to THEN 0
  ELSE IF pos > to THEN -1
  ELSE CHOOSE n \in { IF w = 0 THEN -1
                      ELSE IF FieldsBetween(d, pos + w, to) < 0 THEN -1
                      ELSE 1 + FieldsBetween(d, pos + w, to) :
                        w \in {FieldWidth(d, pos)} } : TRUE

RecordTags ==
  {CHARSET, DFASTATE, INITIALSTATES, LRSTATE, PARAMETER, RULE, SYMBOL,
   COUNTS, CHARRANGES, GROUP, PROPERTY, COUNTS_V5}

\* load_cgt is at the top of its loop, an M header and a type byte ahead
AtRecord ==
  /\ lpc = "records"
  /\ file.read_head + 5 <= Len(file.data)
  /\ file.data[file.read_head + 1] = MULTI
  /\ file.data[file.read_head + 4] = BYTE

Declared == readUInt16LE(file, file.read_head + 1)
RecordType == file.data[file.read_head + 5]

\* the fields the record holds: the fields from the type byte up to the
\* next M header or the end of the file
RECURSIVE FieldsHeld(_, _)
FieldsHeld(d, pos) ==
  CHOOSE n \in { IF w = 0 THEN 0 ELSE 1 + FieldsHeld(d, pos + w) :
                   w \in {FieldWidth(d, pos)} } : TRUE

Held == FieldsHeld(file.data, file.read_head + 3)

\* C14: when load_cgt meets a record whose type byte is no known record tag
\* it consumes all the fields the record declares, adds nothing to any
\* table, raises no error and goes on with the next record, whatever the
\* number of fields declared
C14_UnknownTagSkipped ==
  [][(AtRecord /\ RecordType \notin RecordTags /\ Declared = Held) =>
       /\ lpc' = "records"
       /\ lret'.thrown = undefined
       /\ cgt' = cgt
       /\ file'.read_head = FieldsEnd(file.data, file.read_head + 3, Declared)
       /\ file'.remaining_records = 0]_vars

\* the record before the step was read to its end with no error
RecordPassed == AtRecord /\ lpc' = "records"

\* the fields the step consumed, the type byte included
Consumed == FieldsBetween(file.data, file.read_head + 3, file'.read_head)

\* C17: load_cgt returns only if every record had as many fields consumed
\* as its M header declares; a record with fields left over after dispatch
\* fails with "Incomplete record reading", a record from which more fields
\* were read than declared fails with "Overshot record", and no record is
\* started with a non-zero field counter
C17_RecordFieldCounts ==
  [][/\ RecordPassed => Consumed = Declared
     /\ (AtRecord /\ file'.remaining_records > 0
           /\ LET b == load_cgt_switch([file EXCEPT !.read_head = @ + 5,
                                          !.remaining_records = Declared - 1],
                                       RecordType, cgt)
              IN b.thrown = undefined)
          => lpc' = "load_failed"
             /\ lret'.thrown = Some("Incomplete record reading")
     /\ (AtRecord /\ file'.remaining_records < 0)
          => lpc' = "load_failed" /\ lret'.thrown = Some("Overshot record")
     /\ (lpc = "records" /\ ~eof(file)) => file.remaining_records = 0
     /\ lpc' = "loaded" => file.remaining_records = 0]_vars

----------------------------------------------------------------------------
(* References of the tables and of the linked graph.                        *)

\* some index of the tables c has no entry in the table it refers to
Dangling(c) ==
  \/ \E i \in DOMAIN c.rules :
       \/ ~Defined(c.symbols, c.rules[i].produces)
       \/ \E k \in DOMAIN c.rules[i].consumes :
            ~Defined(c.symbols, c.rules[i].consumes[k])
  \/ \E i \in DOMAIN c.dfa_states :
       \/ c.dfa_states[i].result # undefined
            /\ ~Defined(c.symbols, c.dfa_states[i].result[1])
       \/ \E k \in DOMAIN c.dfa_states[i].edges :
            \/ ~Defined(c.charsets, c.dfa_states[i].edges[k].label)
            \/ ~Defined(c.dfa_states, c.dfa_states[i].edges[k].target)
  \/ \E i \in DOMAIN c.lr_states :
       \E k \in DOMAIN c.lr_states[i].transitions :
         LET t == c.lr_states[i].transitions[k]
         IN \/ ~Defined(c.symbols, t.look_ahead_symbol)
            \/ t.action_type = REDUCE /\ ~Defined(c.rules, t.value)
            \/ t.action_type \in {SHIFT, GOTO}
                 /\ ~Defined(c.lr_states, t.value)
  \/ \E i \in DOMAIN c.groups :
       \/ ~Defined(c.symbols, c.groups[i].symbol)
       \/ ~Defined(c.symbols, c.groups[i].start_symbol)
       \/ ~Defined(c.symbols, c.groups[i].end_symbol)

\* a symbol reference of the graph that is undefined, or whose group holds
\* an undefined symbol
BadSymbol(sym) ==
  \/ sym = undefined
  \/ "group" \in DOMAIN sym
       /\ \/ sym.group.symbol = undefined
          \/ sym.group.start_symbol = undefined
          \/ sym.group.end_symbol = undefined

\* the graph g linked from the tables c holds an undefined reference (the
\* label of edge k of DFA state i is charsets[label] of the table's edge k)
UndefinedIn(g, c) ==
  \/ \E i \in DOMAIN g.rules :
       \/ BadSymbol(g.rules[i].produces)
       \/ \E k \in DOMAIN g.rules[i].consumes :
            BadSymbol(g.rules[i].consumes[k])
  \/ \E i \in DOMAIN g.dfa_map :
       \/ At(c.dfa_states, i).result # undefined
            /\ \/ g.dfa_map[i].result = undefined
               \/ BadSymbol(g.dfa_map[i].result[1])
       \/ \E k \in DOMAIN g.dfa_map[i].edges :
            \/ ~Defined(c.charsets, At(c.dfa_states, i).edges[k].label)
            \/ g.dfa_map[i].edges[k].target \notin DOMAIN g.dfa_map
  \/ \E i \in DOMAIN g.lr_map :
       \E m \in {g.lr_map[i].edges, g.lr_map[i].goto} :
         \E n \in DOMAIN m :
           \/ m[n].type = REDUCE
                /\ \/ m[n].target = undefined
                   \/ BadSymbol(m[n].target.produces)
           \/ m[n].type \in {SHIFT, GOTO}
                /\ m[n].target \notin DOMAIN g.lr_map

\* C18: whenever load_grammar_tables returns, every symbol, rule, charset
\* and state reference of the graph is a defined object; tables in which an
\* index has no entry make it fail with an error that names the index (a
\* TypeError of reading a property of undefined names none)
C18_ReferencesDefined ==
  /\ lpc = "linked" => ~UndefinedIn(grammar, cgt)
  /\ (lpc \in {"linked", "link_failed"} /\ Dangling(cgt)) =>
       lpc = "link_failed" /\ lret.thrown # Some("TypeError")

----------------------------------------------------------------------------
(* Groups of the linked graph.  A symbol of the graph is reached as the    *)
(* result of the DFA state that accepts it.                                 *)

\* the DFA states of the graph that accept symbol i of the tables
Accepting(i) ==
  { n \in DOMAIN grammar.dfa_map : At(cgt.dfa_states, n).result = Some(i) }

\* the indices of the symbols of the tables that the graph holds
GraphSymbols == { i \in 0..(Len(cgt.symbols) - 1) : Accepting(i) # {} }

GraphSymbol(i) == grammar.dfa_map[CHOOSE n \in Accepting(i) : TRUE].result[1]

OfType(t) == { i \in GraphSymbols : At(cgt.symbols, i).type = t }

NewLines ==
  { i \in OfType(TERMINAL) :
      toLowerCase(mangle(At(cgt.symbols, i))) = "'newline'" }

HasGroup(i) == "group" \in DOMAIN GraphSymbol(i)

\* symbols a and b hold one "Comment Block" group of advance mode Char, the
\* given ending mode and no nestables
ShareGroup(a, b, ending) ==
  /\ HasGroup(a) /\ HasGroup(b)
  /\ GraphSymbol(a).group = GraphSymbol(b).group
  /\ GraphSymbol(a).group.name = "Comment Block"
  /\ GraphSymbol(a).group.advance_mode = "Char"
  /\ GraphSymbol(a).group.ending_mode = ending
  /\ GraphSymbol(a).group.nestable_groups = {}

\* C19: linking a v1 table with a GroupStart and a GroupEnd symbol attaches
\* to both one "Comment Block" group (Char, Closed, no nestables) whose
\* symbol is a Skippable; with a CommentLine symbol and a 'newline' terminal
\* it attaches to both a line group (Char, Open, no nestables) and makes the
\* CommentLine symbol a GroupStart; linking a v5 table makes no group, only
\* the symbols its g records name hold one
C19_V1Shim ==
  lpc = "linked" =>
    /\ cgt.version = "v1" =>
         /\ \A a \in OfType(GROUP_START), b \in OfType(GROUP_END) :
              /\ ShareGroup(a, b, "Closed")
              /\ GraphSymbol(a).group.symbol.type = SKIPPABLE
         /\ \A c \in OfType(COMMENT_LINE), n \in NewLines :
              /\ ShareGroup(c, n, "Open")
              /\ GraphSymbol(c).type = GROUP_START
    /\ cgt.version = "v5" =>
         \A i \in GraphSymbols :
           HasGroup(i) =>
             \E k \in DOMAIN cgt.groups :
               /\ i \in {cgt.groups[k].start_symbol, cgt.groups[k].end_symbol}
               /\ GraphSymbol(i).group.name = cgt.groups[k].name

----------------------------------------------------------------------------
\* the step of p is a Reduce by its Pending rule
Reducing(p) ==
  /\ AtStep(p)
  /\ Pending(p) # undefined
  /\ Pending(p)[1].type = REDUCE

\* C20: a Reduce by a rule that consumes n symbols raises State mismatch,
\* the stack as it was, when the stack holds fewer than n frames; else it
\* pops exactly the n topmost frames, leaves the frames below them as they
\* were, and the node it pushes has the parse trees of the popped frames as
\* its children, bottom frame first
C20_ReducePops ==
  [][\A p \in Procs :
       (Reducing(p) /\ Stepped(p)) =>
         LET n == Len(Pending(p)[1].target.consumes)
             have == Len(stack[p])
         IN IF have < n
            THEN /\ pc'[p] = "thrown"
                 /\ thrown'[p] = Some("State mismatch")
                 /\ stack'[p] = stack[p]
            ELSE /\ thrown'[p] # Some("State mismatch")
                 /\ Len(stack'[p]) \in {have - n, have - n + 1}
                 /\ SubSeq(stack'[p], 1, have - n)
                      = SubSeq(stack[p], 1, have - n)
                 /\ pc'[p] # "thrown" =>
                      /\ Len(stack'[p]) = have - n + 1
                      /\ Last(stack'[p]).parse_tree.children.nodes
                           = [k \in 1..n |->
                                stack[p][have - n + k].parse_tree]]_vars

\* a reduce popped two or more frames whose trees differ and follow one
\* another in the input, and pushed their node
C20_Witness ==
  \E p \in Procs :
    /\ pc[p] = "on_reduce"
    /\ Len(stack[p]) >= 2
    /\ LET nodes == Last(stack[p]).parse_tree.children.nodes
       IN /\ Len(nodes) >= 2
          /\ nodes[1] # nodes[2]
          /\ nodes[1].end <= nodes[2].start
          /\ nodes[1].start < nodes[2].start

----------------------------------------------------------------------------
(* build_dfa and build_lr: termination and the sharing of state objects.   *)

\* which of the two functions was called
Builder == IF lpc \in {"build_dfa", "build_lr"} THEN lpc ELSE lret.op
BuildStates == IF Builder = "build_dfa" THEN cgt.dfa_states ELSE cgt.lr_states
BuildInitial ==
  IF Builder = "build_dfa" THEN cgt.dfa_init_state ELSE cgt.lr_init_state

\* the indices the entries of state i of the table lead to
TargetsOf(i) ==
  IF ~Defined(BuildStates, i) THEN {}
  ELSE IF Builder = "build_dfa"
    THEN { At(BuildStates, i).edges[k].target :
             k \in 1..Len(At(BuildStates, i).edges) }
  ELSE { At(BuildStates, i).transitions[k].value :
           k \in { n \in 1..Len(At(BuildStates, i).transitions) :
                     At(BuildStates, i).transitions[n].action_type
                       \in {GOTO, SHIFT} } }

RECURSIVE ReachableFrom(_)
\* the indices a path of the table leads to from the indices S
ReachableFrom(S) ==
  CHOOSE r \in { IF N = S THEN S ELSE ReachableFrom(N) :
                 N \in { S \cup UNION { TargetsOf(i) : i \in S } } } : TRUE

Reachable == ReachableFrom({BuildInitial})

\* the objects an object holds as the target of an edge, a Shift or a Goto
Held21(o) ==
  IF Builder = "build_dfa"
  THEN { o.edges[k].target : k \in 1..Len(o.edges) }
  ELSE { o.edges[n].target :
           n \in { m \in DOMAIN o.edges : o.edges[m].type = SHIFT } }
       \cup { o.goto[n].target : n \in DOMAIN o.goto }

\* the object as the rest of the model names it: its targets by index
ByIndex(o) ==
  IF Builder = "build_dfa"
  THEN [o EXCEPT !.edges =
          [k \in 1..Len(o.edges) |->
             [o.edges[k] EXCEPT !.target = objects[@].index]]]
  ELSE [o EXCEPT
          !.edges = [n \in DOMAIN o.edges |->
                       IF o.edges[n].type = SHIFT
                       THEN [o.edges[n] EXCEPT !.target = objects[@].index]
                       ELSE o.edges[n]],
          !.goto = [n \in DOMAIN o.goto |->
                      [o.goto[n] EXCEPT !.target = objects[@].index]]]

\* the graph of the one-step build_dfa or build_lr of the same tables
MapByIndex ==
  IF Builder = "build_dfa"
  THEN build_dfa(cgt.dfa_init_state, cgt.dfa_states, cgt.charsets,
                 LinkedSymbols).dfa_map
  ELSE build_lr(cgt.lr_init_state, cgt.lr_states, LinkedRules,
                LinkedSymbols).lr_map

\* the Error the one-step linker foresees for the same tables
ErrorByIndex ==
  IF Builder = "build_dfa"
  THEN dfa_helper(cgt.dfa_states, cgt.dfa_init_state, NoWalk).error
  ELSE lr_helper(cgt.lr_states, cgt.symbols, cgt.lr_init_state, NoWalk).error

\* the entries of state i of the table
Entries(i) ==
  IF ~Defined(BuildStates, i) THEN <<>>
  ELSE IF Builder = "build_dfa" THEN At(BuildStates, i).edges
  ELSE At(BuildStates, i).transitions

RECURSIVE Sum(_)
Sum(ns) == IF ns = <<>> THEN 0 ELSE Head(ns) + Sum(Tail(ns))

HasObject(i) == \E a \in DOMAIN objects : objects[a].index = i

\* the entries no for loop has come to yet: those of the calls that stand in
\* their loop, and those of the reachable states no object was made for
NotStarted(reachable) ==
  Sum([j \in DOMAIN calls |->
         IF calls[j].result = undefined THEN 0
         ELSE Len(Entries(calls[j].current)) - (calls[j].k - 1)
                - (IF j < Len(calls) THEN 1 ELSE 0)])
  + Sum([n \in DOMAIN BuildStates |->
           IF (n - 1) \in reachable /\ ~HasObject(n - 1)
           THEN Len(Entries(n - 1)) ELSE 0])

\* what is left to do: a natural number every step of a build makes smaller
Work ==
  CHOOSE w \in { 2 * NotStarted(R) + 3 * Cardinality({ i \in R : ~HasObject(i) })
                   + Len(calls) : R \in {Reachable} } : TRUE

Building == lpc \in {"build_dfa", "build_lr"}

\* at no time are there two objects of one index, an object of an index no
\* path reaches, or more calls inside one another than reachable indices
\* and one; the map holds every object made, under its index
OneObjectEach ==
  /\ \A a, b \in DOMAIN objects :
       objects[a].index = objects[b].index => a = b
  /\ \A a \in DOMAIN objects :
       /\ objects[a].index \in DOMAIN state_map
       /\ state_map[objects[a].index] = a
  /\ \A i \in DOMAIN state_map : state_map[i] \in DOMAIN objects
  /\ \E R \in {Reachable} :
       /\ \A a \in DOMAIN objects : objects[a].index \in R
       /\ Len(calls) <= Cardinality(R) + 1

\* the build returned: an object for each reachable index, the object of the
\* initial index returned, every target the one object of its index
BuiltShared ==
  /\ { objects[a].index : a \in DOMAIN objects } = Reachable
  /\ lret.value = Some(state_map[BuildInitial])
  /\ \A a \in DOMAIN objects :
       /\ Held21(objects[a]) \subseteq DOMAIN objects
       /\ { objects[t].index : t \in Held21(objects[a]) }
            \subseteq TargetsOf(objects[a].index)
       /\ Builder = "build_dfa" =>
            { objects[t].index : t \in Held21(objects[a]) }
              = TargetsOf(objects[a].index)
  /\ [i \in Reachable |-> ByIndex(objects[state_map[i]])] = MapByIndex
  /\ ErrorByIndex = undefined

\* C21: build_dfa and build_lr terminate on every table, cyclic ones and
\* self-loops included, by returning or, where a path of the table leads to
\* what the table does not define, by raising: while they run a step can
\* always be taken, and every step makes the natural number Work smaller or
\* raises (a step can be taken wherever a call is pending and the calls
\* inside one another are fewer than MaxCalls).  They never hold two state
\* objects of one index nor one of an index no path from the initial index
\* reaches, and when they return there is exactly one object for each
\* reachable index and every edge, Shift and Goto that targets index i holds
\* that object.
C21_BuildMemoized ==
  /\ [][Building => /\ lpc' \in {"built", "build_failed"} \/ Building'
                    /\ lpc' # "build_failed" => Work' < Work]_vars
  /\ [](Work >= 0 /\ (Building => calls # <<>> /\ Len(calls) < MaxCalls))
  /\ [](OneObjectEach)
  /\ [](lpc = "built" => BuiltShared)
  /\ [](lpc = "build_failed" =>
          /\ lret.thrown # undefined
          /\ lret.thrown = ErrorByIndex)

\* build_lr returned on a table with a cycle through the initial state, a
\* self-loop and a state no path reaches
C21_Witness ==
  /\ lpc = "built" /\ lret.op = "build_lr"
  /\ Len(objects) = 2 /\ Len(cgt.lr_states) = 3
  /\ \E a, b \in DOMAIN objects :
       /\ a # b
       /\ b \in Held21(objects[a])
       /\ a \in Held21(objects[b])
       /\ b \in Held21(objects[b])

----------------------------------------------------------------------------
(* The leaves of the stack.                                                 *)

RECURSIVE TreeLeaves(_)
\* the tokens at the leaves of a parse tree, left to right
TreeLeaves(n) ==
  IF IsLeaf(n) THEN << n.children.token >>
  ELSE Concat([k \in 1..Len(n.children.nodes) |->
                 TreeLeaves(n.children.nodes[k])])

\* the leaves of the trees of a stack, bottom frame first
StackLeaves(stk) ==
  Concat([k \in 1..Len(stk) |-> TreeLeaves(stk[k].parse_tree)])

\* the leaves invocation p holds: on its stack and, once it returned a tree
\* (the frame Accept popped), in that tree
LeavesHeld(p) ==
  StackLeaves(stack[p])
    \o (IF Returned(p) /\ IsTree(result[p][1])
        THEN TreeLeaves(result[p][1]) ELSE <<>>)

IsLexEvent(e) == e.ev = "lex"
IsShiftEvent(e) == e.ev = "step" /\ e.step = "SHIFT"

\* the tokens next_token gave invocation p, and those lalr_step shifted
LexedSoFar(p) ==
  LET lexed == SelectSeq(trace[p], IsLexEvent)
  IN [k \in 1..Len(lexed) |-> lexed[k].token]
ShiftedSoFar(p) ==
  LET shifts == SelectSeq(trace[p], IsShiftEvent)
  IN [k \in 1..Len(shifts) |-> shifts[k].look_ahead]

IsNotSkippable(t) == t.symbol.type # SKIPPABLE

\* the token lexed and not shifted: the one on_token is being told of, or
\* the look-ahead where the last step did not shift it
Unshifted(p) ==
  IF pc[p] = "on_token"
    THEN SelectSeq(tok[p], IsNotSkippable)
  ELSE IF look_ahead[p] = undefined \/ pc[p] = "on_shift"
          \/ thrown[p] = Some("Shifting EOF should never happen")
    THEN <<>>
  ELSE look_ahead[p]

\* a Reduce raised after its pops: the invocation ended with the popped
\* frames dropped
RaisedInReduce(p) ==
  /\ pc[p] = "thrown"
  /\ thrown[p] \in {Some("GOTO not found for Symbol"), Some("TypeError")}

\* C22: at every point of a parse that no Reduce has ended by raising, the
\* leaf tokens of the trees on the stack (and of the tree Accept returned),
\* bottom frame first and left to right within a tree, are exactly the
\* tokens shifted so far, in the order of the shifts; with the token lexed
\* and not yet shifted they are the non-skippable tokens next_token gave,
\* which are a prefix of the token stream of the input; no leaf is a
\* skippable token.
C22_LeavesAreShifted ==
  \A p \in Procs :
    (Running(p) /\ ~RaisedInReduce(p)) =>
      /\ LeavesHeld(p) = ShiftedSoFar(p)
      /\ LeavesHeld(p) \o Unshifted(p)
           = SelectSeq(LexedSoFar(p), IsNotSkippable)
      /\ IsPrefix(LexedSoFar(p), lex_all(grammar, str[p], 0))
      /\ \A k \in DOMAIN LeavesHeld(p) : IsNotSkippable(LeavesHeld(p)[k])

\* a tree of two shifted tokens was reduced and a third token shifted onto
\* it, with a skippable token lexed in between
C22_Witness ==
  \E p \in Procs :
    /\ pc[p] = "loop"
    /\ Len(LeavesHeld(p)) = 2
    /\ Len(stack[p]) = 3
    /\ Len(TreeLeaves(stack[p][2].parse_tree)) = 1
    /\ ~IsLeaf(stack[p][2].parse_tree)
    /\ IsLeaf(stack[p][3].parse_tree)
    /\ look_ahead[p] = undefined
    /\ \E k \in DOMAIN LexedSoFar(p) : ~IsNotSkippable(LexedSoFar(p)[k])

----------------------------------------------------------------------------
(* The sentinel frame.                                                      *)

\* the frame lalr_setup builds for the grammar's initial state
SentinelFrame == lalr_setup(grammar.lalr)[1]

\* C23: in every state of a parse the stack is non-empty and its bottom
\* frame is the INITIAL_STATE sentinel frame of lalr_setup: no reduce pops
\* it, the stack has a top frame wherever one is looked up (a TypeError is
\* never raised), and the tree returned on Accept is not the sentinel node.
C23_SentinelStays ==
  \A p \in Procs :
    Running(p) =>
      /\ stack[p] # <<>>
      /\ stack[p][1] = SentinelFrame
      /\ thrown[p] # Some("TypeError")
      /\ (Returned(p) /\ IsTree(result[p][1])) =>
           result[p][1] # SentinelFrame.parse_tree

----------------------------------------------------------------------------
(* Termination of parse_string.                                             *)

\* the step of p is a call of lalr_step that leaves the look-ahead in its
\* slot and the state it found on top on top again, above the frames that
\* were there: lalr_step, which looks at the top state and the look-ahead
\* alone, takes the same step from there, and so on without end
ReduceRepeats(p) ==
  /\ AtStep(p) /\ Stepped(p)
  /\ pc'[p] \in {"loop", "on_reduce"}
  /\ look_ahead'[p] = look_ahead[p]
  /\ Len(stack'[p]) = Len(stack[p]) + 1
  /\ SubSeq(stack'[p], 1, Len(stack[p])) = stack[p]
  /\ Last(stack'[p]).current_state = Last(stack[p]).current_state

\* the step of p ends a turn of the loop that fetched a token of length 0
\* and leaves the look-ahead slot empty: the next turn fetches at the same
\* offset
EmptyTokenRepeats(p) ==
  /\ pc'[p] = "loop" /\ look_ahead'[p] = undefined
  /\ \/ /\ AtLex(p) /\ Stepped(p)
        /\ FetchesToken(p) /\ Fetched(p)[1].value = <<>>
     \/ /\ pc[p] = "on_token"
        /\ tok[p][1].value = <<>>

\* C24: every invocation of parse_string on a finite input terminates.  No
\* step brings it to where the same step is taken again for ever: no reduce
\* leaves the same look-ahead to the same state with the stack grown, and no
\* token of length zero leaves the cursor and the look-ahead slot unchanged.
C24_Terminates ==
  [][\A p \in Procs : ~ReduceRepeats(p) /\ ~EmptyTokenRepeats(p)]_vars

====
